---- MODULE Spec2Model ----
(***************************************************************************)
(* A model of the MonadTrojan trading bot: the persistence layer           *)
(* (src/src/database.py), the master-key encryption service                *)
(* (src/src/security.py), the trading calls of the blockchain manager      *)
(* (src/blockchain.py) and the conversation controller (src/src/main.py).  *)
(***************************************************************************)
EXTENDS Integers, Sequences, FiniteSets, TLC

(***************************************************************************)
(* Bounds of the model                                                     *)
(***************************************************************************)
\* the chain log keeps at most this many submitted transactions
MaxTxs == 2
\* largest router allowance the chain starts with or reaches
MaxAllowance == 4
\* largest amount (whole tokens) a direct trading call is given
MaxAmount == 1
\* largest number of decimals a token reports (10^decimals base units)
MaxDecimals == 1

(***************************************************************************)
(* Values                                                                  *)
(***************************************************************************)
Users == {"u1"}

\* Python None for string-typed values
None == "None"
\* Python None for a row / dict
NoRow == [none |-> TRUE]

\* A signing key is a string; it is modelled as the sequence of its parts so
\* that the '0x' prefix test and the concatenation '0x' + key are computed.
KeyA == <<"0x", "aa">>
KeyARaw == <<"aa">>
KeyG == <<"0x", "gg">>
EmptyKey == <<>>
BadKey == <<"zz">>

Passphrases == {"pass-one1", "pass-two2"}
Salts == {"s1", "s2"}

\* truthiness of a Python str-or-None
Truthy(s) == s # None /\ s # ""

\* str.startswith('0x')
StartsWith0x(pk) == Len(pk) > 0 /\ pk[1] = "0x"

\* the address eth_account derives from a key (with the prefix present)
AddressOf(pk) ==
    IF pk = KeyA THEN "0xAddrA"
    ELSE IF pk = KeyG THEN "0xAddrG"
    ELSE None

(***************************************************************************)
(* Master-key encryption service                                           *)
(***************************************************************************)
\* A ciphertext is the authenticated token of one service: which service made
\* it, the plaintext it seals and (passphrase service) the passphrase and salt
\* its key was derived from.
NoCipher == [svc |-> "none", plain |-> EmptyKey, pw |-> None, salt |-> None]

\* an encryption that stores the key as it was given
encrypt_private_key_as_given(private_key) ==
    IF private_key = EmptyKey
    THEN [ret |-> NoCipher, raised |-> "ValueError: Private key cannot be empty"]
    ELSE [ret |-> [svc |-> "master", plain |-> private_key, pw |-> None, salt |-> None],
          raised |-> "none"]

\* encrypt_private_key: [ret, raised]
encrypt_private_key(private_key) ==
    IF private_key = EmptyKey
    THEN [ret |-> NoCipher, raised |-> "ValueError: Private key cannot be empty"]
    ELSE LET normal == IF StartsWith0x(private_key) THEN private_key
                       ELSE <<"0x">> \o private_key
         IN [ret |-> [svc |-> "master", plain |-> normal, pw |-> None, salt |-> None],
             raised |-> "none"]

\* decrypt_private_key: [ret, raised]
decrypt_private_key(encrypted_key) ==
    IF encrypted_key = NoCipher
    THEN [ret |-> EmptyKey, raised |-> "ValueError: Encrypted key cannot be empty"]
    ELSE IF encrypted_key.svc = "master"
    THEN [ret |-> encrypted_key.plain, raised |-> "none"]
    ELSE [ret |-> EmptyKey, raised |-> "Exception: Decryption failed"]

(***************************************************************************)
(* Passphrase encryption service                                           *)
(***************************************************************************)
\* encrypt_with_passphrase: {encrypted_key, salt}; the fresh salt is an input
encrypt_with_passphrase(private_key, passphrase, salt) ==
    [encrypted_key |-> [svc |-> "passphrase", plain |-> private_key,
                        pw |-> passphrase, salt |-> salt],
     salt |-> salt]

\* decrypt_with_passphrase: [ret, raised]
decrypt_with_passphrase(encrypted_key, salt, passphrase) ==
    IF /\ encrypted_key.svc = "passphrase"
       /\ encrypted_key.pw = passphrase
       /\ encrypted_key.salt = salt
    THEN [ret |-> encrypted_key.plain, raised |-> "none"]
    ELSE [ret |-> EmptyKey, raised |-> "ValueError: Incorrect passphrase"]

(***************************************************************************)
(* State                                                                   *)
(***************************************************************************)
VARIABLES
    users,          \* table users: telegram_id -> row or NoRow
    user_settings,  \* table user_settings: telegram_id -> row or NoRow
    token_history,  \* table token_history: the rows in insertion order
    last_write,     \* per user, the arguments of the last wallet write (ghost)
    last_gas,       \* per user, the gas button pressed last (ghost)
    db_call,        \* the last persistence-layer call and its outcome
    allowance,      \* chain: the router's allowance on the wallet's token
    chain_txs,      \* chain: the transactions submitted so far
    trade_call,     \* the last trading call of the blockchain manager
    quote_call,     \* the last quoted swap: the quote and the min_output made of it
    conv,           \* ConversationHandler state per user
    user_context,   \* main.user_context: user -> dict or NoRow
    user_data,      \* context.user_data per user
    last_update,    \* the last update dispatched and how its handler ended
    token_snapshots,\* table token_snapshots: user -> the holdings map persisted
    monitor_call,   \* the last check_user_for_new_tokens and what it did
    monitor_loop,   \* monitor_tokens: where the loop stands in its cycle
    waterfall,      \* get_wallet_all_tokens: the tiers consulted by the call
    verified_call,  \* the last _is_token_verified call and its result
    cipher_call,    \* the last master-key encryption and what was made of it
    send_call,      \* the last update of the send flow and how it was answered
    shown,          \* per user, the content of the bot's message in the chat
    event_loop,     \* the event loop: who holds its thread, the tasks' positions
    account,        \* the wallet's account on the chain: mined and pending transactions
    portfolio_call, \* the last call of the portfolio module and what it returned
    price_cache,    \* _price_cache and _cache_expiry: per key the price and its expiry
    now             \* the clock, in seconds

dbVars == <<users, user_settings, token_history, last_write, last_gas, db_call>>
chainVars == <<allowance, chain_txs, trade_call, quote_call>>
botVars == <<conv, user_context, user_data, last_update>>
quietVars == <<token_snapshots, monitor_call, monitor_loop, waterfall, verified_call, cipher_call, send_call, event_loop, account, portfolio_call, price_cache, now>>
monitorVars == <<quietVars, shown>>
vars == <<users, user_settings, token_history, last_write, last_gas, db_call,
          allowance, chain_txs, trade_call, quote_call,
          conv, user_context, user_data, last_update,
          token_snapshots, monitor_call, monitor_loop, waterfall, verified_call, cipher_call, send_call,
          shown, event_loop, account, portfolio_call, price_cache, now>>

(***************************************************************************)
(* Persistence layer (DatabaseManager)                                     *)
(***************************************************************************)
\* slippage values are kept in tenths of a percent (1.0 % = 10)
DefaultSettings ==
    [slippage |-> 10, gas_price_mode |-> "normal", anti_mev |-> 0,
     notifications_enabled |-> 1]

SettingsColumns == {"slippage", "gas_price_mode", "anti_mev", "notifications_enabled"}

UserRow(wallet_address, encrypted_private_key, passphrase_salt) ==
    [wallet_address |-> wallet_address,
     encrypted_private_key |-> encrypted_private_key,
     passphrase_salt |-> passphrase_salt]

\* The result of a persistence call: the tables after it, whether a users row
\* was committed, and the exception that left the call ("none" if it returned).
DbResult(U, S, wrote, raised) ==
    [users |-> U, user_settings |-> S, wrote |-> wrote, raised |-> raised]

\* _create_default_settings: INSERT of a row whose primary key is telegram_id
CreateDefaultSettings(U, S, telegram_id, wrote) ==
    IF S[telegram_id] # NoRow
    THEN DbResult(U, S, wrote, "IntegrityError: user_settings.telegram_id")
    ELSE DbResult(U, [S EXCEPT ![telegram_id] = DefaultSettings], wrote, "none")

\* DatabaseManager.create_user
create_user(U, S, telegram_id, wallet_address, private_key, passphrase, salt) ==
    LET enc == encrypt_private_key(private_key)
        row == IF Truthy(passphrase)
               THEN LET d == encrypt_with_passphrase(private_key, passphrase, salt)
                    IN UserRow(wallet_address, d.encrypted_key, d.salt)
               ELSE UserRow(wallet_address, enc.ret, None)
    IN IF ~Truthy(passphrase) /\ enc.raised # "none"
       THEN DbResult(U, S, FALSE, enc.raised)
       ELSE IF U[telegram_id] # NoRow
       THEN DbResult(U, S, FALSE, "IntegrityError: users.telegram_id")
       ELSE CreateDefaultSettings([U EXCEPT ![telegram_id] = row], S,
                                  telegram_id, TRUE)

\* update_user_wallet whose master-key branch forgets to clear the salt
update_user_wallet_keeps_salt(U, S, telegram_id, wallet_address, private_key, passphrase, salt) ==
    LET enc == encrypt_private_key(private_key)
    IN IF U[telegram_id] # NoRow
       THEN IF Truthy(passphrase)
            THEN LET d == encrypt_with_passphrase(private_key, passphrase, salt)
                 IN DbResult([U EXCEPT ![telegram_id] =
                                 UserRow(wallet_address, d.encrypted_key, d.salt)],
                             S, TRUE, "none")
            ELSE IF enc.raised # "none"
            THEN DbResult(U, S, FALSE, enc.raised)
            ELSE DbResult([U EXCEPT ![telegram_id] =
                                 UserRow(wallet_address, enc.ret,
                                         U[telegram_id].passphrase_salt)],
                          S, TRUE, "none")
       ELSE create_user(U, S, telegram_id, wallet_address, private_key,
                        passphrase, salt)

\* DatabaseManager.update_user_wallet
update_user_wallet(U, S, telegram_id, wallet_address, private_key, passphrase, salt) ==
    LET enc == encrypt_private_key(private_key)
    IN IF U[telegram_id] # NoRow
       THEN IF Truthy(passphrase)
            THEN LET d == encrypt_with_passphrase(private_key, passphrase, salt)
                 IN DbResult([U EXCEPT ![telegram_id] =
                                 UserRow(wallet_address, d.encrypted_key, d.salt)],
                             S, TRUE, "none")
            ELSE IF enc.raised # "none"
            THEN DbResult(U, S, FALSE, enc.raised)
            ELSE DbResult([U EXCEPT ![telegram_id] =
                                 UserRow(wallet_address, enc.ret, None)],
                          S, TRUE, "none")
       ELSE create_user(U, S, telegram_id, wallet_address, private_key,
                        passphrase, salt)

\* DatabaseManager.get_decrypted_private_key: [ret, is_none, raised]
KeyResult(ret, is_none, raised) == [ret |-> ret, is_none |-> is_none, raised |-> raised]

\* get_decrypted_private_key without the test for a missing passphrase
get_decrypted_private_key_unchecked(U, telegram_id, passphrase) ==
    LET user == U[telegram_id]
    IN IF user = NoRow \/ user.encrypted_private_key = NoCipher
       THEN KeyResult(EmptyKey, TRUE, "none")
       ELSE IF Truthy(user.passphrase_salt)
       THEN LET d == decrypt_with_passphrase(user.encrypted_private_key,
                                             user.passphrase_salt, passphrase)
            IN KeyResult(d.ret, FALSE, d.raised)
       ELSE LET d == decrypt_private_key(user.encrypted_private_key)
            IN KeyResult(d.ret, FALSE, d.raised)

get_decrypted_private_key(U, telegram_id, passphrase) ==
    LET user == U[telegram_id]
    IN IF user = NoRow \/ user.encrypted_private_key = NoCipher
       THEN KeyResult(EmptyKey, TRUE, "none")
       ELSE IF Truthy(user.passphrase_salt)
       THEN IF ~Truthy(passphrase)
            THEN KeyResult(EmptyKey, FALSE, "ValueError: Passphrase required")
            ELSE LET d == decrypt_with_passphrase(user.encrypted_private_key,
                                                  user.passphrase_salt, passphrase)
                 IN KeyResult(d.ret, FALSE, d.raised)
       ELSE LET d == decrypt_private_key(user.encrypted_private_key)
            IN KeyResult(d.ret, FALSE, d.raised)

\* DatabaseManager.get_user_settings: the table after the lazy creation
get_user_settings(S, telegram_id) ==
    IF S[telegram_id] = NoRow
    THEN [S EXCEPT ![telegram_id] = DefaultSettings]
    ELSE S

\* DatabaseManager.update_user_settings: kwargs is a function column -> value
update_user_settings(S, telegram_id, kwargs) ==
    LET old == IF S[telegram_id] = NoRow THEN DefaultSettings ELSE S[telegram_id]
        new == [c \in SettingsColumns |->
                   IF c \in DOMAIN kwargs THEN kwargs[c] ELSE old[c]]
    IN [S EXCEPT ![telegram_id] = new]

\* DatabaseManager.add_token_history
HistoryRow(telegram_id, token_address, action, amount, tx_hash) ==
    [telegram_id |-> telegram_id, token_address |-> token_address,
     action |-> action, amount |-> amount, tx_hash |-> tx_hash]

add_token_history(H, telegram_id, token_address, action, amount, tx_hash) ==
    Append(H, HistoryRow(telegram_id, token_address, action, amount, tx_hash))

(***************************************************************************)
(* Python numbers.  An int has arbitrary precision: it is held as its      *)
(* limbs, least significant first, without leading zero limbs (0 is <<>>). *)
(* A float is an IEEE 754 binary64: [m, e] stands for m * 2^e with m an    *)
(* int of at most MantissaBits bits; its operations round to nearest, ties *)
(* to even.  Only non-negative values occur.                               *)
(***************************************************************************)
LimbBits == 15
MantissaBits == 53
LimbBase == 2 ^ LimbBits

RECURSIVE LNorm(_)
LNorm(n) ==
    IF n = <<>> \/ n[Len(n)] # 0 THEN n ELSE LNorm(SubSeq(n, 1, Len(n) - 1))

RECURSIVE LFromInt(_)
LFromInt(k) == IF k = 0 THEN <<>> ELSE <<k % LimbBase>> \o LFromInt(k \div LimbBase)

\* the value of an int small enough for it
RECURSIVE LToInt(_)
LToInt(n) == IF n = <<>> THEN 0 ELSE n[1] + LimbBase * LToInt(Tail(n))

LimbAt(n, i) == IF i >= 1 /\ i <= Len(n) THEN n[i] ELSE 0

RECURSIVE LAddFrom(_, _, _, _)
LAddFrom(a, b, i, carry) ==
    IF i > Len(a) /\ i > Len(b)
    THEN IF carry = 0 THEN <<>> ELSE <<carry>>
    ELSE LET sum == LimbAt(a, i) + LimbAt(b, i) + carry
         IN <<sum % LimbBase>> \o LAddFrom(a, b, i + 1, sum \div LimbBase)

LAdd(a, b) == LAddFrom(a, b, 1, 0)

\* a - b for a >= b
RECURSIVE LSubFrom(_, _, _, _)
LSubFrom(a, b, i, borrow) ==
    IF i > Len(a)
    THEN <<>>
    ELSE LET d == LimbAt(a, i) - LimbAt(b, i) - borrow
         IN IF d < 0
            THEN <<d + LimbBase>> \o LSubFrom(a, b, i + 1, 1)
            ELSE <<d>> \o LSubFrom(a, b, i + 1, 0)

LSub(a, b) == LNorm(LSubFrom(a, b, 1, 0))

\* a * d for one limb d
RECURSIVE LMulSmallFrom(_, _, _, _)
LMulSmallFrom(a, d, i, carry) ==
    IF i > Len(a)
    THEN IF carry = 0 THEN <<>> ELSE <<carry>>
    ELSE LET prod == a[i] * d + carry
         IN <<prod % LimbBase>> \o LMulSmallFrom(a, d, i + 1, prod \div LimbBase)

LMulSmall(a, d) == IF d = 0 THEN <<>> ELSE LMulSmallFrom(a, d, 1, 0)

LShiftLimbs(n, q) == IF n = <<>> THEN <<>> ELSE [i \in 1..q |-> 0] \o n

RECURSIVE LMulFrom(_, _, _)
LMulFrom(a, b, j) ==
    IF j > Len(b)
    THEN <<>>
    ELSE LAdd(LShiftLimbs(LMulSmall(a, b[j]), j - 1), LMulFrom(a, b, j + 1))

LMul(a, b) == LMulFrom(a, b, 1)

\* floor(n / d) and n mod d for one limb d > 0: [q, r]
RECURSIVE LDivSmallFrom(_, _, _, _)
LDivSmallFrom(n, d, i, rem) ==
    IF i = 0
    THEN [q |-> <<>>, r |-> rem]
    ELSE LET cur == rem * LimbBase + n[i]
             rest == LDivSmallFrom(n, d, i - 1, cur % d)
         IN [q |-> Append(rest.q, cur \div d), r |-> rest.r]

LDivSmall(n, d) ==
    LET res == LDivSmallFrom(n, d, Len(n), 0)
    IN [q |-> LNorm(res.q), r |-> res.r]

RECURSIVE BitLenSmall(_)
BitLenSmall(x) == IF x = 0 THEN 0 ELSE 1 + BitLenSmall(x \div 2)

\* int.bit_length()
LBitLen(n) ==
    IF n = <<>> THEN 0 ELSE (Len(n) - 1) * LimbBits + BitLenSmall(n[Len(n)])

\* n >> k
LShiftRight(n, k) ==
    LET q == k \div LimbBits
        r == k % LimbBits
    IN IF q >= Len(n)
       THEN <<>>
       ELSE LNorm([i \in 1..(Len(n) - q) |->
                      (n[i + q] \div (2 ^ r))
                      + (LimbAt(n, i + q + 1) % (2 ^ r)) * (2 ^ (LimbBits - r))])

\* n << k
LShiftLeft(n, k) ==
    LET q == k \div LimbBits
        r == k % LimbBits
    IN LNorm([i \in 1..(Len(n) + q + 1) |->
                 IF i <= q
                 THEN 0
                 ELSE (LimbAt(n, i - q) % (2 ^ (LimbBits - r))) * (2 ^ r)
                      + (LimbAt(n, i - q - 1) \div (2 ^ (LimbBits - r)))])

\* bit i of n, bit 0 the least significant
LBit(n, i) == (LimbAt(n, i \div LimbBits + 1) \div (2 ^ (i % LimbBits))) % 2

\* the k low bits of n are all 0
LLowZero(n, k) ==
    /\ \A i \in 1..Len(n) : i <= k \div LimbBits => n[i] = 0
    /\ LimbAt(n, k \div LimbBits + 1) % (2 ^ (k % LimbBits)) = 0

\* a <= b
RECURSIVE LLeqFrom(_, _, _)
LLeqFrom(a, b, i) ==
    IF i = 0 THEN TRUE
    ELSE IF a[i] # b[i] THEN a[i] < b[i]
    ELSE LLeqFrom(a, b, i - 1)

LLeq(a, b) == IF Len(a) # Len(b) THEN Len(a) < Len(b) ELSE LLeqFrom(a, b, Len(a))

\* The float nearest to n * 2^e (ties to even); inexact says that n itself
\* was cut from a longer value, which then has more than MantissaBits + 1 bits.
RoundNearestEven(n, e, inexact) ==
    LET k == LBitLen(n) - MantissaBits
        q == LShiftRight(n, k)
        half == LBit(n, k - 1) = 1
        below == ~LLowZero(n, k - 1) \/ inexact
        up == half /\ (below \/ LBit(q, 0) = 1)
    IN IF k <= 0
       THEN [m |-> n, e |-> e]
       ELSE [m |-> IF up THEN LAdd(q, <<1>>) ELSE q, e |-> e + k]

\* float(n) of an int, as int * float converts its left operand
float_of_int(n) == RoundNearestEven(n, 0, FALSE)

\* x * y
float_mul(x, y) == RoundNearestEven(LMul(x.m, y.m), x.e + y.e, FALSE)

\* x / d for an int d of one limb (d is exact as a float)
float_div(x, d) ==
    LET shift == MantissaBits + LimbBits + 2
        res == LDivSmall(LShiftLeft(x.m, shift), d)
    IN IF x.m = <<>> THEN x ELSE RoundNearestEven(res.q, x.e - shift, res.r # 0)

\* x - y for x >= y
float_sub(x, y) ==
    LET e == IF x.e <= y.e THEN x.e ELSE y.e
    IN RoundNearestEven(LSub(LShiftLeft(x.m, x.e - e), LShiftLeft(y.m, y.e - e)),
                        e, FALSE)

\* int(x): truncation
int_of_float(x) ==
    IF x.e >= 0 THEN LShiftLeft(x.m, x.e) ELSE LShiftRight(x.m, 0 - x.e)

\* x > y
float_gt(x, y) ==
    LET e == IF x.e <= y.e THEN x.e ELSE y.e
    IN ~LLeq(LShiftLeft(x.m, x.e - e), LShiftLeft(y.m, y.e - e))

(***************************************************************************)
(* Blockchain manager: the trading calls                                   *)
(***************************************************************************)
\* The outcomes of the RPC node and the chain during one trading call: each
\* step inside the call's try block may raise, and a submitted approval may
\* or may not be mined by the time the swap is built.
\* getAmountsOut(...)[-1] of the router, in base units
Quotes == {LFromInt(200)}

TradeEnvs ==
    [info_ok : BOOLEAN, decimals : 0..MaxDecimals, allowance_read_ok : BOOLEAN,
     approve_send_ok : BOOLEAN, approve_mined : BOOLEAN, quote_ok : BOOLEAN,
     swap_send_ok : BOOLEAN, expected_output : Quotes]

\* A call meets the outcome of a step only if it reaches the step: after a
\* step that raised, the later outcomes are fixed (they are never read).
Reached(env) ==
    /\ ~env.info_ok => /\ env.decimals = 0
                       /\ env.allowance_read_ok
                       /\ env.quote_ok
    /\ ~env.allowance_read_ok => env.approve_send_ok
    /\ ~env.approve_send_ok => env.approve_mined
    /\ ~env.quote_ok => env.swap_send_ok

\* every step succeeds
AllOk(env) ==
    /\ env.info_ok /\ env.decimals = 0 /\ env.allowance_read_ok
    /\ env.approve_send_ok /\ env.approve_mined /\ env.quote_ok /\ env.swap_send_ok

\* the outcomes sell_token depends on
SellEnvs == {env \in TradeEnvs : Reached(env)}

\* the outcomes approve_token, buy_token and send_token depend on
ApproveEnvs ==
    {env \in TradeEnvs : /\ Reached(env)
                         /\ env.info_ok /\ env.decimals = 0
                         /\ env.quote_ok /\ env.swap_send_ok}

SwapEnvs ==
    {env \in TradeEnvs : /\ Reached(env)
                         /\ env.info_ok /\ env.decimals = 0
                         /\ env.allowance_read_ok /\ env.approve_send_ok
                         /\ env.approve_mined}

SendEnvs ==
    {env \in TradeEnvs : /\ Reached(env)
                         /\ env.allowance_read_ok /\ env.approve_send_ok
                         /\ env.approve_mined /\ env.quote_ok}

\* Account.from_key accepts the key (with or without the prefix)
KeyValid(pk) ==
    AddressOf(IF StartsWith0x(pk) THEN pk ELSE <<"0x">> \o pk) # None

RECURSIVE Pow10(_)
Pow10(d) == IF d = 0 THEN 1 ELSE 10 * Pow10(d - 1)

\* tx_hash.hex() of the n-th transaction the chain accepted
TxHash(n) == "0xh" \o ToString(n)

\* a submitted transaction: the contract function it calls and its amount
Tx(kind, amount) == [kind |-> kind, amount |-> amount]

MaxQuote == 12

\* 10 ** 18: one token of 18 decimals in base units
TenTo18 == LMul(LFromInt(1000000000), LFromInt(1000000000))

\* quotes of a few base units, the quote of the spec's example, and quotes of
\* a token of 18 decimals and a few base units more
QuoteAmounts ==
    {LFromInt(k) : k \in 0..MaxQuote} \cup {LFromInt(1000)}
        \cup {LAdd(TenTo18, LFromInt(k)) : k \in 0..MaxQuote}

\* the float a slippage of the given tenths of a percent is: float("0.5")
SlippageFloat(slippage) == float_div(float_of_int(LFromInt(slippage)), 10)

\* the slippages a settings row can hold, in tenths of a percent: the default
\* of the column and the presets of the slippage menu
Slippages == {5, 10, 50, 100}

\* 1 - slippage / 100 for each of them (the factor does not depend on the
\* quote: it is computed once)
SlippageFactor ==
    [slippage \in Slippages |->
        float_sub(float_of_int(<<1>>), float_div(SlippageFloat(slippage), 100))]

\* int(expected_output * (1 - slippage / 100)) for every quote and slippage of
\* the model (computed once)
MinOutputs ==
    [expected_output \in Quotes \cup QuoteAmounts, slippage \in Slippages |->
        int_of_float(float_mul(float_of_int(expected_output), SlippageFactor[slippage]))]

\* int(expected_output * (1 - slippage / 100)), slippage in tenths of a percent
MinOutput(expected_output, slippage) == MinOutputs[expected_output, slippage]


\* approve_token with the allowance test written > instead of >=
approve_token_strict(allow, log, amount, private_key, gas_mode, env) ==
    IF ~KeyValid(private_key) \/ ~env.allowance_read_ok
    THEN [ret |-> None, txs |-> <<>>]
    ELSE IF allow > amount
    THEN [ret |-> "ALREADY_APPROVED", txs |-> <<>>]
    ELSE IF ~env.approve_send_ok
    THEN [ret |-> None, txs |-> <<>>]
    ELSE [ret |-> TxHash(Len(log) + 1), txs |-> <<Tx("approve", amount)>>]

\* BlockchainManager.approve_token: [ret, txs]; ret is None, the sentinel or
\* the hash of the approve transaction, txs the transactions it submitted.
approve_token(allow, log, amount, private_key, gas_mode, env) ==
    IF ~KeyValid(private_key) \/ ~env.allowance_read_ok
    THEN [ret |-> None, txs |-> <<>>]
    ELSE IF allow >= amount
    THEN [ret |-> "ALREADY_APPROVED", txs |-> <<>>]
    ELSE IF ~env.approve_send_ok
    THEN [ret |-> None, txs |-> <<>>]
    ELSE [ret |-> TxHash(Len(log) + 1), txs |-> <<Tx("approve", amount)>>]

\* The result of buy_token, sell_token and send_token: ok is FALSE when the
\* call returns None; txs are the transactions the call submitted, allowance
\* the router allowance after them.
TradeResult(ok, tx_hash, approve_hash, txs, waited, allow, expected_output, min_output) ==
    [ok |-> ok, tx_hash |-> tx_hash, approve_hash |-> approve_hash, txs |-> txs,
     waited |-> waited, allowance |-> allow,
     expected_output |-> expected_output, min_output |-> min_output]

TradeFailed(txs, waited, allow) ==
    TradeResult(FALSE, None, None, txs, waited, allow, <<>>, <<>>)

\* BlockchainManager.buy_token
buy_token(allow, log, amount_monad, private_key, slippage, gas_mode, env) ==
    IF ~KeyValid(private_key) \/ ~env.quote_ok \/ ~env.swap_send_ok
    THEN TradeFailed(<<>>, FALSE, allow)
    ELSE TradeResult(TRUE, TxHash(Len(log) + 1), None,
                     <<Tx("swapExactETHForTokens", amount_monad)>>,
                     FALSE, allow, env.expected_output,
                     MinOutput(env.expected_output, slippage))

\* BlockchainManager.sell_token
sell_token(allow, log, amount_tokens, private_key, slippage, gas_mode, env) ==
    IF ~env.info_ok
    THEN TradeFailed(<<>>, FALSE, allow)
    ELSE
    LET amount_in_wei == amount_tokens * Pow10(env.decimals)
        ap == approve_token(allow, log, amount_in_wei * 2, private_key, gas_mode, env)
        approve_hash == ap.ret
        waited == approve_hash # None /\ approve_hash # "ALREADY_APPROVED"
        \* the allowance the router sees when the swap is built
        allow1 == IF Len(ap.txs) > 0 /\ env.approve_mined
                  THEN amount_in_wei * 2 ELSE allow
    IN IF \/ ~KeyValid(private_key)
          \/ ~env.quote_ok
          \/ ~env.swap_send_ok
          \/ allow1 < amount_in_wei
       THEN TradeFailed(ap.txs, waited, allow1)
       ELSE TradeResult(TRUE, TxHash(Len(log) + Len(ap.txs) + 1),
                        IF approve_hash # "ALREADY_APPROVED" THEN approve_hash ELSE None,
                        ap.txs \o <<Tx("swapExactTokensForETH", amount_in_wei)>>,
                        waited, allow1 - amount_in_wei, env.expected_output,
                        MinOutput(env.expected_output, slippage))

\* send_token that sends the signed transfer again when the first send raised
send_token_retry(allow, log, amount, private_key, env) ==
    IF ~env.info_ok \/ ~KeyValid(private_key)
    THEN TradeFailed(<<>>, FALSE, allow)
    ELSE LET tx == Tx("transfer", amount * Pow10(env.decimals))
         IN TradeResult(TRUE, TxHash(Len(log) + 1), None,
                        IF env.swap_send_ok THEN <<tx>> ELSE <<tx, tx>>,
                        FALSE, allow, 0, 0)

\* BlockchainManager.send_token
send_token(allow, log, amount, private_key, env) ==
    IF ~env.info_ok \/ ~KeyValid(private_key) \/ ~env.swap_send_ok
    THEN TradeFailed(<<>>, FALSE, allow)
    ELSE TradeResult(TRUE, TxHash(Len(log) + 1), None,
                     <<Tx("transfer", amount * Pow10(env.decimals))>>,
                     FALSE, allow, 0, 0)

(***************************************************************************)
(* Text: a str is the sequence of its characters                           *)
(***************************************************************************)
UpperLetters == 
    <<"A", "B", "C", "D", "E", "F", "G", "H", "I", "J", "K", "L", "M",
      "N", "O", "P", "Q", "R", "S", "T", "U", "V", "W", "X", "Y", "Z">>
LowerLetters == 
    <<"a", "b", "c", "d", "e", "f", "g", "h", "i", "j", "k", "l", "m",
      "n", "o", "p", "q", "r", "s", "t", "u", "v", "w", "x", "y", "z">>

\* str.lower of one character
LowerChar(c) ==
    IF \E i \in 1..Len(UpperLetters) : UpperLetters[i] = c
    THEN LowerLetters[CHOOSE i \in 1..Len(UpperLetters) : UpperLetters[i] = c]
    ELSE c

\* str.lower
lower(text) == [i \in 1..Len(text) |-> LowerChar(text[i])]

\* str.endswith
endswith(text, suffix) ==
    /\ Len(text) >= Len(suffix)
    /\ SubSeq(text, Len(text) - Len(suffix) + 1, Len(text)) = suffix

\* str.startswith
startswith(text, prefix) ==
    /\ Len(text) >= Len(prefix)
    /\ SubSeq(text, 1, Len(prefix)) = prefix

\* str.strip of a text with blanks around it
RECURSIVE lstrip(_)
lstrip(text) ==
    IF text # <<>> /\ Head(text) = " " THEN lstrip(Tail(text)) ELSE text

RECURSIVE rstrip(_)
rstrip(text) ==
    IF text # <<>> /\ text[Len(text)] = " "
    THEN rstrip(SubSeq(text, 1, Len(text) - 1)) ELSE text

strip_text(text) == rstrip(lstrip(text))

(***************************************************************************)
(* Verified tokens (config.VERIFIED_TOKENS, BlockchainManager)             *)
(***************************************************************************)
\* two of the 80 keys of VERIFIED_TOKENS: WMON and USDC
WMON_ADDRESS ==
    <<"0", "x", "7", "6", "0", "a", "f", "e", "8", "6", "e", "5", "d", "e",
      "5", "f", "a", "0", "e", "e", "5", "4", "2", "f", "c", "7", "b", "7",
      "b", "7", "1", "3", "e", "1", "c", "5", "4", "2", "5", "7", "0", "1">>

USDC_ADDRESS ==
    <<"0", "x", "f", "8", "1", "7", "2", "5", "7", "f", "e", "d", "3", "7",
      "9", "8", "5", "3", "c", "d", "e", "0", "f", "a", "4", "f", "9", "7",
      "a", "b", "9", "8", "7", "1", "8", "1", "b", "1", "e", "5", "e", "a">>

VERIFIED_TOKENS == {WMON_ADDRESS, USDC_ADDRESS}

\* the addresses a token API reports: the two keys as they are, the first
\* one in checksum case, the second one in upper case, and two other ones
WMON_CHECKSUM ==
    <<"0", "x", "7", "6", "0", "A", "f", "E", "8", "6", "e", "5", "d", "e",
      "5", "f", "a", "0", "E", "e", "5", "4", "2", "f", "c", "7", "B", "7",
      "B", "7", "1", "3", "e", "1", "c", "5", "4", "2", "5", "7", "0", "1">>

USDC_UPPER ==
    <<"0", "X", "F", "8", "1", "7", "2", "5", "7", "F", "E", "D", "3", "7",
      "9", "8", "5", "3", "C", "D", "E", "0", "F", "A", "4", "F", "9", "7",
      "A", "B", "9", "8", "7", "1", "8", "1", "B", "1", "E", "5", "E", "A">>

UnlistedAddress ==
    <<"0", "x", "1", "1", "1", "1", "1", "1", "1", "1", "1", "1", "1", "1",
      "1", "1", "1", "1", "1", "1", "1", "1", "1", "1", "1", "1", "1", "1",
      "1", "1", "1", "1", "1", "1", "1", "1", "1", "1", "1", "1", "1", "1">>

UnlistedMixed ==
    <<"0", "x", "A", "B", "C", "D", "E", "F", "a", "b", "c", "d", "e", "f",
      "0", "0", "0", "0", "0", "0", "0", "0", "0", "0", "0", "0", "0", "0",
      "0", "0", "0", "0", "0", "0", "0", "0", "0", "0", "0", "0", "0", "0">>

TokenAddresses ==
    {WMON_ADDRESS, USDC_ADDRESS, WMON_CHECKSUM, USDC_UPPER, UnlistedAddress,
     UnlistedMixed, <<>>}

\* HIGH_VALUE_TOKENS
HIGH_VALUE_TOKENS ==
    {<<"M", "O", "N">>,
     <<"M", "O", "N", "A", "D">>,
     <<"W", "M", "O", "N">>,
     <<"U", "S", "D", "C">>,
     <<"U", "S", "D", "T">>,
     <<"W", "E", "T", "H">>,
     <<"W", "B", "T", "C">>}

\* stablecoins = ['USDT', 'USDC', 'DAI', 'BUSD', 'FRAX', 'R2USD']
stablecoins ==
    {<<"U", "S", "D", "T">>,
     <<"U", "S", "D", "C">>,
     <<"D", "A", "I">>,
     <<"B", "U", "S", "D">>,
     <<"F", "R", "A", "X">>,
     <<"R", "2", "U", "S", "D">>}

\* other symbols a token can carry: unknown ones, the symbol of an allow-listed
\* token, other spellings of a stablecoin, Atlantis symbols and near misses
OtherSymbols ==
    {<<"R", "A", "N", "D", "O", "M">>,
     <<"S", "C", "A", "M">>,
     <<"C", "H", "O", "G">>,
     <<"u", "s", "d", "c">>,
     <<"U", "s", "d", "c">>,
     <<"U", "S", "D", "C", " ">>,
     <<"U", "S", "D">>,
     <<"W", "E", "T", "H", ".", "a">>,
     <<"X", ".", "a">>,
     <<".", "a">>,
     <<"a">>,
     <<"X", ".", "A">>,
     <<"X", ".", "a", "b">>,
     <<"a", ".">>,
     <<"U", "N", "K", "N", "O", "W", "N">>, <<>>}

TokenSymbols == HIGH_VALUE_TOKENS \cup stablecoins \cup OtherSymbols

AtlantisSuffix == <<".", "a">>

\* a predicate that looks the address up as it was given
_is_token_verified_exact(token_address, symbol) ==
    \/ token_address \in VERIFIED_TOKENS
    \/ symbol \in HIGH_VALUE_TOKENS
    \/ symbol \in stablecoins \/ endswith(symbol, AtlantisSuffix)

\* _is_token_verified
_is_token_verified(token_address, symbol) ==
    IF lower(token_address) \in VERIFIED_TOKENS THEN TRUE
    ELSE IF symbol \in HIGH_VALUE_TOKENS THEN TRUE
    ELSE IF symbol \in stablecoins \/ endswith(symbol, AtlantisSuffix) THEN TRUE
    ELSE FALSE

\* the monitor's symbols as text
SymbolText ==
    [symbol \in {"MON", "USDC", "SCAM"} |->
        IF symbol = "MON" THEN <<"M", "O", "N">>
        ELSE IF symbol = "USDC" THEN <<"U", "S", "D", "C">>
        ELSE <<"S", "C", "A", "M">>]

(***************************************************************************)
(* Notification monitor (src/notification_monitor.py)                      *)
(***************************************************************************)
MaxUnits == 2

\* 2 ** 53: from here on a float no longer holds every whole number
TwoTo53 == LShiftLeft(<<1>>, MantissaBits)

\* the symbols of a wallet's holdings, in the order get_wallet_all_tokens
\* inserts them: the native entry first, then the tokens
SymbolOrder == <<"MON", "USDC", "SCAM">>
Symbols == {SymbolOrder[i] : i \in 1..Len(SymbolOrder)}

\* symbol in ['MON', 'MONAD']
NativeSymbols == {"MON", "MONAD"}

\* _is_token_verified of the monitor's tokens, which are at addresses that
\* are not allow-listed
VerifiedSymbols ==
    [symbol \in Symbols |-> _is_token_verified(UnlistedAddress, SymbolText[symbol])]
is_token_verified(symbol) == VerifiedSymbols[symbol]

\* the balances the token API reports, as whole tokens: Decimal(balance_str)
\* of a few tokens, and around 2 ** 53 tokens
SmallBalances == {LFromInt(k) : k \in 1..MaxUnits}
LargeBalances == {LAdd(TwoTo53, LFromInt(k)) : k \in 0..1}
BalancesOf(symbol) ==
    IF symbol = "USDC" THEN {<<1>>} \cup LargeBalances
    ELSE IF symbol = "MON" THEN {<<1>>, <<2>>}
    ELSE SmallBalances

\* what the token API and the node report for a wallet: the symbols with a
\* balance above 0, and their balances
WalletBalances ==
    UNION {{b \in [S -> SmallBalances \cup LargeBalances] :
               \A symbol \in S : b[symbol] \in BalancesOf(symbol)} :
           S \in SUBSET Symbols}

\* get_wallet_all_tokens: the holdings map symbol -> token data; the native
\* entry is 'verified': True
get_wallet_all_tokens(balances) ==
    [symbol \in DOMAIN balances |->
        [symbol |-> symbol, balance |-> balances[symbol],
         verified |-> IF symbol = "MON" THEN TRUE ELSE is_token_verified(symbol)]]

\* no holdings
NoTokens == <<>>

\* how a helper script can end: subprocess.TimeoutExpired, returncode other
\* than 0, output json.loads or float() cannot read, a payload that reports
\* no success, a payload that does
HelperOutcomes == {"timeout", "nonzero_exit", "unparsable", "not_ok", "ok"}

\* the legacy tier also fails without BLOCKVISION_API_KEY
LegacyOutcomes == HelperOutcomes \cup {"no_api_key"}

\* get_native_balance: w3.eth.get_balance raised or gave the balance
NativeOutcomes == {"rpc_error", "ok"}

\* the legacy tier's holdings map: 'verified' is the payload's flag
legacy_tokens(balances, flags) ==
    [symbol \in DOMAIN balances |->
        [symbol |-> symbol, balance |-> balances[symbol], verified |-> flags[symbol]]]

\* the final fallback: "if native_balance:" adds the native entry;
\* get_native_balance gives Decimal('0') when the read raised
native_tokens(outcome, native_balance) ==
    IF outcome = "ok" /\ native_balance # <<>>
    THEN get_wallet_all_tokens([symbol \in {"MON"} |-> native_balance])
    ELSE NoTokens

\* a waterfall that goes on to the next tier whatever the tier gave
tier_done_continue(w, tier, outcome, tokens, next) ==
    [pc |-> next,
     consulted |-> Append(w.consulted, [tier |-> tier, outcome |-> outcome]),
     balances |-> IF outcome = "ok" THEN tokens ELSE NoTokens]

\* one tier of get_wallet_all_tokens: "return balances" when the helper
\* succeeded, and in every other case (the except branch, or the if that
\* falls through) the next tier
tier_done(w, tier, outcome, tokens, next) ==
    [pc |-> IF outcome = "ok" THEN "returned" ELSE next,
     consulted |-> Append(w.consulted, [tier |-> tier, outcome |-> outcome]),
     balances |-> IF outcome = "ok" THEN tokens ELSE NoTokens]

\* the final fallback returns whatever the read gave
native_done(w, outcome, tokens) ==
    [pc |-> "returned",
     consulted |-> Append(w.consulted, [tier |-> "native", outcome |-> outcome]),
     balances |-> tokens]

\* get_token_snapshot: the last persisted holdings map, empty when none
get_token_snapshot(snapshots, telegram_id) == snapshots[telegram_id]

\* update_token_snapshot: wholesale overwrite
update_token_snapshot(snapshots, telegram_id, tokens) ==
    [snapshots EXCEPT ![telegram_id] = tokens]

\* get_users_with_notifications: the users whose settings flag is on
get_users_with_notifications ==
    {u \in Users : /\ users[u] # NoRow
                   /\ user_settings[u] # NoRow
                   /\ user_settings[u].notifications_enabled = 1}

\* token_data after token_data['balance_increase'] = new_balance - old_balance;
\* the key holds <<the float>>, and <<>> stands for a dict without the key
WithIncrease(token_data, old_balance, new_balance) ==
    [symbol |-> token_data.symbol, balance |-> token_data.balance,
     verified |-> token_data.verified,
     balance_increase |-> <<float_sub(new_balance, old_balance)>>]

\* token_data as the loop appends it for a new token
WithoutIncrease(token_data) ==
    [symbol |-> token_data.symbol, balance |-> token_data.balance,
     verified |-> token_data.verified, balance_increase |-> <<>>]

\* a loop that does not look at the verification flag
Appended_unverified(symbol, current_tokens, last_snapshot) ==
    LET token_data == current_tokens[symbol]
        is_new == symbol \notin DOMAIN last_snapshot
        old_balance == float_of_int(last_snapshot[symbol].balance)
        new_balance == float_of_int(token_data.balance)
        increase == <<WithIncrease(token_data, old_balance, new_balance)>>
    IN IF symbol \in NativeSymbols
       THEN IF ~is_new /\ float_gt(new_balance, old_balance) THEN increase ELSE <<>>
       ELSE IF is_new
       THEN IF token_data.balance # <<>> THEN <<WithoutIncrease(token_data)>> ELSE <<>>
       ELSE IF float_gt(new_balance, old_balance) THEN increase ELSE <<>>

\* a loop that treats the native entry as it treats a verified token
Appended_native_as_token(symbol, current_tokens, last_snapshot) ==
    LET token_data == current_tokens[symbol]
        is_new == symbol \notin DOMAIN last_snapshot
        old_balance == float_of_int(last_snapshot[symbol].balance)
        new_balance == float_of_int(token_data.balance)
        increase == <<WithIncrease(token_data, old_balance, new_balance)>>
    IN IF ~token_data.verified THEN <<>>
       ELSE IF is_new
       THEN IF token_data.balance # <<>> THEN <<WithoutIncrease(token_data)>> ELSE <<>>
       ELSE IF float_gt(new_balance, old_balance) THEN increase ELSE <<>>

\* one pass of `for symbol, token_data in current_tokens.items()`: what it
\* appends to new_tokens
Appended(symbol, current_tokens, last_snapshot) ==
    LET token_data == current_tokens[symbol]
        is_new == symbol \notin DOMAIN last_snapshot
        old_balance == float_of_int(last_snapshot[symbol].balance)
        new_balance == float_of_int(token_data.balance)
        increase == <<WithIncrease(token_data, old_balance, new_balance)>>
    IN IF symbol \in NativeSymbols
       THEN IF ~is_new /\ float_gt(new_balance, old_balance) THEN increase ELSE <<>>
       ELSE IF ~token_data.verified THEN <<>>
       ELSE IF is_new
       THEN IF token_data.balance # <<>> THEN <<WithoutIncrease(token_data)>> ELSE <<>>
       ELSE IF float_gt(new_balance, old_balance) THEN increase ELSE <<>>

\* the loop over the first i symbols
RECURSIVE NewTokens(_, _, _)
NewTokens(i, current_tokens, last_snapshot) ==
    IF i = 0 THEN <<>>
    ELSE NewTokens(i - 1, current_tokens, last_snapshot)
            \o (IF SymbolOrder[i] \in DOMAIN current_tokens
                THEN Appended(SymbolOrder[i], current_tokens, last_snapshot)
                ELSE <<>>)

\* the message send_token_notification builds for one queued item
Message(token) ==
    [symbol |-> token.symbol,
     text |-> IF token.balance_increase # <<>> /\ token.balance_increase[1].m # <<>>
              THEN IF token.symbol \in NativeSymbols THEN "MON Received"
                   ELSE "Received"
              ELSE "New Token Received"]

\* send_token_notification: one bot.send_message per item of new_tokens
send_token_notification(new_tokens) ==
    [i \in 1..Len(new_tokens) |-> Message(new_tokens[i])]

MonitorResult(outcome, new_tokens, snapshots) ==
    [outcome |-> outcome, new_tokens |-> new_tokens,
     messages |-> send_token_notification(new_tokens), snapshots |-> snapshots]

\* a check without the first-run branch
check_user_for_new_tokens_no_first_run(snapshots, telegram_id, current_tokens) ==
    LET last_snapshot == get_token_snapshot(snapshots, telegram_id)
        new_tokens == NewTokens(Len(SymbolOrder), current_tokens, last_snapshot)
        updated == update_token_snapshot(snapshots, telegram_id, current_tokens)
    IN IF DOMAIN current_tokens = {}
       THEN MonitorResult("no_tokens", <<>>, snapshots)
       ELSE MonitorResult("compared", new_tokens, updated)

\* check_user_for_new_tokens, the try block
check_user_for_new_tokens(snapshots, telegram_id, current_tokens) ==
    LET last_snapshot == get_token_snapshot(snapshots, telegram_id)
        new_tokens == NewTokens(Len(SymbolOrder), current_tokens, last_snapshot)
        updated == update_token_snapshot(snapshots, telegram_id, current_tokens)
    IN IF DOMAIN current_tokens = {}
       THEN MonitorResult("no_tokens", <<>>, snapshots)
       ELSE IF DOMAIN last_snapshot = {}
       THEN MonitorResult("first_run", <<>>, updated)
       ELSE MonitorResult("compared", new_tokens, updated)

\* the calls of a check that can raise: the waterfall, the two snapshot
\* calls and bot.send_message
CheckFailures == {"none", "get_wallet_all_tokens", "get_token_snapshot",
                  "update_token_snapshot", "send_message"}

\* a check that keeps the snapshot as it was when a send raised
check_user_guarded_resend(snapshots, telegram_id, current_tokens, fail) ==
    LET r == check_user_for_new_tokens(snapshots, telegram_id, current_tokens)
    IN IF fail = "get_wallet_all_tokens"
       THEN MonitorResult("error", <<>>, snapshots)
       ELSE IF r.outcome = "no_tokens" THEN r
       ELSE IF fail = "get_token_snapshot"
       THEN MonitorResult("error", <<>>, snapshots)
       ELSE IF fail = "update_token_snapshot"
       THEN [r EXCEPT !.outcome = "error", !.snapshots = snapshots]
       ELSE IF fail = "send_message"
       THEN [r EXCEPT !.messages = <<>>, !.snapshots = snapshots]
       ELSE r

\* check_user_for_new_tokens with its handler "except Exception as e: print":
\* a call that raises ends the check where it stands, and nothing is raised
\* to monitor_tokens; a send that raises is caught by send_token_notification
\* and the check goes on
check_user_guarded(snapshots, telegram_id, current_tokens, fail) ==
    LET r == check_user_for_new_tokens(snapshots, telegram_id, current_tokens)
    IN IF fail = "get_wallet_all_tokens"
       THEN MonitorResult("error", <<>>, snapshots)
       ELSE IF r.outcome = "no_tokens" THEN r
       ELSE IF fail = "get_token_snapshot"
       THEN MonitorResult("error", <<>>, snapshots)
       ELSE IF fail = "update_token_snapshot"
       THEN [r EXCEPT !.outcome = "error", !.snapshots = snapshots]
       ELSE IF fail = "send_message"
       THEN [r EXCEPT !.messages = <<>>]
       ELSE r

\* monitor_tokens, "users = db_manager.get_users_with_notifications()": the
\* call raised (ok false, handled by "except Exception as e: print"), or it
\* gave the rows
monitor_fetch(loop, rows, ok) ==
    IF ~ok THEN [loop EXCEPT !.pc = "sleep", !.users = <<>>, !.next = 1,
                             !.checked = <<>>, !.errors = {"fetch"}]
    ELSE [pc |-> IF rows = <<>> THEN "sleep" ELSE "check", users |-> rows,
          next |-> 1, checked |-> <<>>, errors |-> {}]

\* a loop that lets the error of a check end the cycle
monitor_checked_abort(loop, outcome) ==
    LET user == loop.users[loop.next]
        last == loop.next = Len(loop.users)
    IN [loop EXCEPT !.pc = IF last \/ outcome = "error" THEN "sleep" ELSE "check",
                    !.next = loop.next + 1,
                    !.checked = Append(loop.checked, user),
                    !.errors = IF outcome = "error" THEN loop.errors \cup {user}
                                                    ELSE loop.errors]

\* monitor_tokens, the body of "for user in users": the check has returned,
\* "await asyncio.sleep(1)", then the next user or the end of the cycle
monitor_checked(loop, outcome) ==
    LET user == loop.users[loop.next]
        last == loop.next = Len(loop.users)
    IN [loop EXCEPT !.pc = IF last THEN "sleep" ELSE "check",
                    !.next = loop.next + 1,
                    !.checked = Append(loop.checked, user),
                    !.errors = IF outcome = "error" THEN loop.errors \cup {user}
                                                    ELSE loop.errors]

\* monitor_tokens, "await asyncio.sleep(30)" and "while True"
monitor_slept(loop) == [loop EXCEPT !.pc = "fetch"]

(***************************************************************************)
(* Initial states                                                          *)
(***************************************************************************)
NoDbCall ==
    [op |-> "none", telegram_id |-> None, passphrase |-> None, had_user |-> FALSE,
     had_settings |-> FALSE, ret |-> EmptyKey, is_none |-> TRUE, raised |-> "none"]

NoTradeCall ==
    [fn |-> "none", amount |-> 0, allowance_before |-> 0, read_ok |-> FALSE,
     ret |-> None, approve_ret |-> None,
     ok |-> FALSE, txs |-> <<>>, waited |-> FALSE]

NoQuoteCall ==
    [fn |-> "none", expected_output |-> <<>>, slippage |-> 0, ok |-> FALSE,
     min_output |-> <<>>]

\* handler: the handler (and branch of button_callback) that ran; raised: the
\* exception that left it; trade: "none", or how its trading call ended
NoUpdate == [user |-> "none", handler |-> "none", raised |-> "none", trade |-> "none"]

\* context.user_data: an absent key is None / NoRow / the empty key
EmptyUserData ==
    [pending_private_key |-> EmptyKey, pending_address |-> None,
     pending_passphrase |-> None, pending_buy |-> NoRow, pending_sell |-> NoRow,
     current_token_info |-> None, send_token |-> NoRow]

InitDb ==
    /\ users = [u \in Users |-> NoRow]
    /\ user_settings = [u \in Users |-> NoRow]
    /\ token_history = <<>>
    /\ last_write = [u \in Users |-> NoRow]
    /\ last_gas = [u \in Users |-> None]
    /\ db_call = NoDbCall

InitChain ==
    /\ allowance \in 0..MaxAllowance
    /\ chain_txs = <<>>
    /\ trade_call = NoTradeCall
    /\ quote_call = NoQuoteCall

NoMonitorCall ==
    [user |-> "none", outcome |-> "none", current_tokens |-> NoTokens,
     last_snapshot |-> NoTokens, new_tokens |-> <<>>, messages |-> <<>>]

\* the event loop before any update arrived
LoopIdle == [thread |-> "free", op |-> "none", queue |-> 0, handled |-> 0, monitor_steps |-> 0]

\* an account without transactions
NoAccount == [mined |-> 0, pending |-> <<>>]

NoPortfolioCall == [called |-> FALSE]

\* the keys of the price cache: a token address and the literal "MON"
CacheKeys == {"0xToken", "MON"}

\* _price_cache = {} and _cache_expiry = {}
EmptyCache == [k \in CacheKeys |-> NoRow]

\* a message the model does not follow: no menu of the settings
NoContent == [screen |-> "none", slippage |-> 0, gas |-> "none", anti_mev |-> 0]

NoSendCall ==
    [user |-> "none", handler |-> "none", outcome |-> "none", text |-> <<>>,
     recipient |-> <<>>, amount |-> 0, balance |-> 0]

NoCipherCall ==
    [stage |-> "none", plaintext |-> EmptyKey, ciphertext |-> NoCipher,
     decrypted |-> EmptyKey, raised |-> "none"]

NoVerifiedCall == [called |-> FALSE, token_address |-> <<>>, symbol |-> <<>>, result |-> FALSE]

\* no call of get_wallet_all_tokens yet
NoWaterfall == [pc |-> "idle", consulted |-> <<>>, balances |-> NoTokens]

\* monitor_tokens before its first cycle
LoopStart == [pc |-> "fetch", users |-> <<>>, next |-> 1, checked |-> <<>>, errors |-> {}]

InitMonitor ==
    /\ token_snapshots = [u \in Users |-> NoTokens]
    /\ monitor_call = NoMonitorCall
    /\ monitor_loop = LoopStart
    /\ waterfall = NoWaterfall
    /\ verified_call = NoVerifiedCall
    /\ cipher_call = NoCipherCall
    /\ send_call = NoSendCall
    /\ shown = [u \in Users |-> NoContent]
    /\ event_loop = LoopIdle
    /\ account = NoAccount
    /\ portfolio_call = NoPortfolioCall
    /\ price_cache = EmptyCache
    /\ now = 0

InitBot ==
    /\ conv = [u \in Users |-> "Idle"]
    /\ user_context = [u \in Users |-> NoRow]
    /\ user_data = [u \in Users |-> EmptyUserData]
    /\ last_update = NoUpdate

Init == InitDb /\ InitChain /\ InitBot /\ InitMonitor

(***************************************************************************)
(* Direct calls of the trading functions (specification SpecTrade)         *)
(***************************************************************************)
GasModes == {"normal", "fast", "very_fast"}
TradeKeys == {KeyA, BadKey}

TradeCall(fn, amount, pk, env, ret, approve_ret, r) ==
    [fn |-> fn, amount |-> amount, allowance_before |-> allowance,
     read_ok |-> KeyValid(pk) /\ env.allowance_read_ok, ret |-> ret,
     approve_ret |-> approve_ret, ok |-> r.ok, txs |-> r.txs, waited |-> r.waited]

CallApproveToken ==
    \E amount \in 0..MaxAllowance, pk \in TradeKeys, gas_mode \in {"normal"},
       env \in ApproveEnvs :
        LET r == approve_token(allowance, chain_txs, amount, pk, gas_mode, env)
        IN /\ pk = BadKey => AllOk(env)
           /\ Len(chain_txs) + 1 <= MaxTxs
           /\ chain_txs' = chain_txs \o r.txs
           /\ allowance' = IF Len(r.txs) > 0 /\ env.approve_mined
                           THEN amount ELSE allowance
           /\ UNCHANGED <<quote_call, monitorVars>>
           /\ trade_call' = [fn |-> "approve_token", amount |-> amount,
                             allowance_before |-> allowance,
                             read_ok |-> KeyValid(pk) /\ env.allowance_read_ok,
                             ret |-> r.ret, approve_ret |-> r.ret,
                             ok |-> r.ret # None, txs |-> r.txs, waited |-> FALSE]
           /\ UNCHANGED <<dbVars, botVars>>

CallBuyToken ==
    \E amount \in 1..MaxAmount, pk \in TradeKeys, gas_mode \in {"normal"},
       env \in SwapEnvs :
        LET r == buy_token(allowance, chain_txs, amount, pk, 10, gas_mode, env)
        IN /\ pk = BadKey => AllOk(env)
           /\ Len(chain_txs) + 1 <= MaxTxs
           /\ chain_txs' = chain_txs \o r.txs
           /\ allowance' = r.allowance
           /\ UNCHANGED <<quote_call, monitorVars>>
           /\ trade_call' = TradeCall("buy_token", amount, pk, env, r.tx_hash, None, r)
           /\ UNCHANGED <<dbVars, botVars>>

CallSellToken ==
    \E amount \in 1..MaxAmount, pk \in TradeKeys, gas_mode \in {"normal"},
       env \in SellEnvs :
        LET r == sell_token(allowance, chain_txs, amount, pk, 10, gas_mode, env)
            ap == approve_token(allowance, chain_txs,
                                amount * Pow10(env.decimals) * 2, pk, gas_mode, env)
        IN /\ pk = BadKey => AllOk(env)
           /\ Len(chain_txs) + 2 <= MaxTxs
           /\ chain_txs' = chain_txs \o r.txs
           /\ allowance' = r.allowance
           /\ UNCHANGED <<quote_call, monitorVars>>
           /\ trade_call' = TradeCall("sell_token", amount * Pow10(env.decimals),
                                      pk, env, r.tx_hash,
                                      IF env.info_ok THEN ap.ret ELSE None, r)
           /\ UNCHANGED <<dbVars, botVars>>

CallSendToken ==
    \E amount \in 1..MaxAmount, pk \in TradeKeys, env \in SendEnvs :
        LET r == send_token(allowance, chain_txs, amount, pk, env)
        IN /\ pk = BadKey => AllOk(env)
           /\ Len(chain_txs) + 1 <= MaxTxs
           /\ chain_txs' = chain_txs \o r.txs
           /\ allowance' = r.allowance
           /\ UNCHANGED <<quote_call, monitorVars>>
           /\ trade_call' = TradeCall("send_token", amount, pk, env, r.tx_hash, None, r)
           /\ UNCHANGED <<dbVars, botVars>>

NextTrade == CallApproveToken \/ CallBuyToken \/ CallSellToken \/ CallSendToken

SpecTrade == Init /\ [][NextTrade]_vars

(***************************************************************************)
(* Claims about the trading calls (checked under SpecTrade)                *)
(***************************************************************************)
Kinds(txs) == [i \in 1..Len(txs) |-> txs[i].kind]
CountKind(txs, kind) == Cardinality({i \in 1..Len(txs) : txs[i].kind = kind})
IsHash(ret) == ret # None /\ ret # "ALREADY_APPROVED"

\* C8 as stated: every single call of approve_token, buy_token, sell_token or
\* send_token submits at most one chain transaction.
C8_AtMostOneTxPerCall == Len(trade_call.txs) <= 1

\* C8, amended: approve_token, buy_token and send_token submit at most one
\* transaction per call; sell_token submits at most one approve transaction
\* followed by at most one swap; a call that returns None has submitted no
\* swap or transfer, and nothing is submitted twice.
C8_TxsPerCall ==
    /\ trade_call.fn \in {"approve_token", "buy_token", "send_token"}
          => Len(trade_call.txs) <= 1
    /\ trade_call.fn = "sell_token"
          => /\ Kinds(trade_call.txs) \in
                  {<<>>, <<"approve">>, <<"swapExactTokensForETH">>,
                   <<"approve", "swapExactTokensForETH">>}
    /\ trade_call.fn = "approve_token" => Kinds(trade_call.txs) \in {<<>>, <<"approve">>}
    /\ trade_call.fn = "buy_token"
          => Kinds(trade_call.txs) \in {<<>>, <<"swapExactETHForTokens">>}
    /\ trade_call.fn = "send_token" => Kinds(trade_call.txs) \in {<<>>, <<"transfer">>}
    /\ ~trade_call.ok
          => \A i \in 1..Len(trade_call.txs) : trade_call.txs[i].kind = "approve"

\* a sell_token call that submitted an approval and then the swap
C8_Witness ==
    /\ trade_call.fn = "sell_token"
    /\ Kinds(trade_call.txs) = <<"approve", "swapExactTokensForETH">>

\* C9: sell_token submits the swap only after the approval for 2x the amount
\* was ensured in that call (approve_token returned the sentinel, or returned
\* the hash of a new approval that was followed by the wait); if the approval
\* step fails (approve_token returns None) no swap is submitted and the
\* result is absent.
C9_SwapOnlyAfterApproval ==
    trade_call.fn = "sell_token" =>
        /\ CountKind(trade_call.txs, "swapExactTokensForETH") > 0
              => \/ trade_call.approve_ret = "ALREADY_APPROVED"
                 \/ IsHash(trade_call.approve_ret) /\ trade_call.waited
        /\ trade_call.approve_ret = None
              => /\ CountKind(trade_call.txs, "swapExactTokensForETH") = 0
                 /\ ~trade_call.ok

\* C10: approve_token returns the sentinel and submits nothing whenever the
\* allowance it read is >= the requested amount; when the allowance is smaller
\* it submits exactly one approve transaction and returns its hash, or returns
\* None (having submitted nothing) when building, signing or sending failed.
C10_ApproveToken ==
    (trade_call.fn = "approve_token" /\ trade_call.read_ok) =>
        /\ trade_call.allowance_before >= trade_call.amount
              => trade_call.ret = "ALREADY_APPROVED" /\ trade_call.txs = <<>>
        /\ trade_call.allowance_before < trade_call.amount
              => \/ /\ trade_call.txs = <<Tx("approve", trade_call.amount)>>
                    /\ IsHash(trade_call.ret)
                    /\ trade_call.ret = TxHash(Len(chain_txs))
                 \/ trade_call.ret = None /\ trade_call.txs = <<>>

\* approve_token was called with an allowance equal to the requested amount
C10_Witness ==
    /\ trade_call.fn = "approve_token"
    /\ trade_call.read_ok
    /\ trade_call.amount > 0
    /\ trade_call.allowance_before = trade_call.amount
    /\ trade_call.ret = "ALREADY_APPROVED"

(***************************************************************************)
(* Direct calls of the persistence layer (specification SpecDb)            *)
(***************************************************************************)
\* the token_history table keeps at most this many rows
MaxHistory == 1

DbKeys == {KeyA, KeyARaw, KeyG}
PassArgs == {None, ""} \cup Passphrases
Normal0x(pk) == IF StartsWith0x(pk) THEN pk ELSE <<"0x">> \o pk

DbCall(op, telegram_id, passphrase, ret, is_none, raised) ==
    [op |-> op, telegram_id |-> telegram_id, passphrase |-> passphrase,
     had_user |-> users[telegram_id] # NoRow,
     had_settings |-> user_settings[telegram_id] # NoRow,
     ret |-> ret, is_none |-> is_none, raised |-> raised]

WalletWrite(passphrase, private_key) ==
    [passphrase |-> passphrase, private_key |-> private_key]

DbCreateUser ==
    \E u \in Users, pk \in DbKeys, pw \in PassArgs, salt \in Salts :
        LET r == create_user(users, user_settings, u, AddressOf(Normal0x(pk)), pk, pw, salt)
        IN /\ users' = r.users
           /\ user_settings' = r.user_settings
           /\ last_write' = IF r.wrote THEN [last_write EXCEPT ![u] = WalletWrite(pw, pk)]
                            ELSE last_write
           /\ db_call' = DbCall("create_user", u, pw, EmptyKey, FALSE, r.raised)
           /\ UNCHANGED <<token_history, last_gas, chainVars, monitorVars, botVars>>

DbUpdateUserWallet ==
    \E u \in Users, pk \in DbKeys, pw \in PassArgs, salt \in Salts :
        LET r == update_user_wallet(users, user_settings, u, AddressOf(Normal0x(pk)),
                                    pk, pw, salt)
        IN /\ users' = r.users
           /\ user_settings' = r.user_settings
           /\ last_write' = IF r.wrote THEN [last_write EXCEPT ![u] = WalletWrite(pw, pk)]
                            ELSE last_write
           /\ db_call' = DbCall("update_user_wallet", u, pw, EmptyKey, FALSE, r.raised)
           /\ UNCHANGED <<token_history, last_gas, chainVars, monitorVars, botVars>>

DbGetDecryptedPrivateKey ==
    \E u \in Users, pw \in PassArgs :
        LET r == get_decrypted_private_key(users, u, pw)
        IN /\ db_call' = DbCall("get_decrypted_private_key", u, pw, r.ret,
                                r.is_none, r.raised)
           /\ UNCHANGED <<users, user_settings, token_history, last_write, last_gas,
                          chainVars, monitorVars, botVars>>

DbGetUserSettings ==
    \E u \in Users :
        /\ user_settings' = get_user_settings(user_settings, u)
        /\ db_call' = DbCall("get_user_settings", u, None, EmptyKey, FALSE, "none")
        /\ UNCHANGED <<users, token_history, last_write, last_gas, chainVars, monitorVars, botVars>>

DbUpdateUserSettings ==
    \E u \in Users, column \in {"gas_price_mode", "anti_mev", "no_such_column"} :
        \E value \in IF column = "gas_price_mode" THEN {"fast", "very"} ELSE {0, 1} :
            /\ user_settings' = update_user_settings(user_settings, u,
                                                     [c \in {column} |-> value])
            /\ db_call' = DbCall("update_user_settings", u, None, EmptyKey, FALSE, "none")
            /\ UNCHANGED <<users, token_history, last_write, last_gas, chainVars, monitorVars, botVars>>

DbAddTokenHistory ==
    \E u \in Users, action \in {"buy", "sell"} :
        /\ Len(token_history) < MaxHistory
        /\ token_history' = add_token_history(token_history, u, "0xToken", action,
                                              1, TxHash(1))
        /\ db_call' = DbCall("add_token_history", u, None, EmptyKey, FALSE, "none")
        /\ UNCHANGED <<users, user_settings, last_write, last_gas, chainVars, monitorVars, botVars>>

NextDb ==
    \/ DbCreateUser
    \/ DbUpdateUserWallet
    \/ DbGetDecryptedPrivateKey
    \/ DbGetUserSettings
    \/ DbUpdateUserSettings
    \/ DbAddTokenHistory

InitFresh ==
    /\ InitDb /\ InitBot /\ InitMonitor
    /\ allowance = 0 /\ chain_txs = <<>>
    /\ trade_call = NoTradeCall /\ quote_call = NoQuoteCall

SpecDb == InitFresh /\ [][NextDb]_vars

(***************************************************************************)
(* Claims about the persistence layer (checked under SpecDb)               *)
(***************************************************************************)
\* C3: after any sequence of create_user and update_user_wallet calls the
\* stored record has a passphrase salt iff the most recent write was given a
\* passphrase (a non-empty one: the code tests its truth value), and the
\* stored ciphertext was made by the matching service: the passphrase service,
\* with that passphrase and the stored salt, when a salt is present, the
\* master-key service when it is absent.
C3_SaltMatchesCipher ==
    \A u \in Users :
        /\ (users[u] = NoRow) <=> (last_write[u] = NoRow)
        /\ users[u] # NoRow =>
              LET row == users[u]
                  enc == row.encrypted_private_key
              IN /\ Truthy(row.passphrase_salt) <=> Truthy(last_write[u].passphrase)
                 /\ Truthy(row.passphrase_salt)
                       => /\ enc.svc = "passphrase"
                          /\ enc.salt = row.passphrase_salt
                          /\ enc.pw = last_write[u].passphrase
                          /\ enc.plain = last_write[u].private_key
                 /\ ~Truthy(row.passphrase_salt)
                       => /\ enc.svc = "master"
                          /\ enc.plain = Normal0x(last_write[u].private_key)

\* a passphrase wallet was replaced by a master-key wallet through
\* update_user_wallet
C3_Witness ==
    \E u \in Users :
        /\ db_call.op = "update_user_wallet"
        /\ db_call.telegram_id = u
        /\ db_call.had_user
        /\ ~Truthy(db_call.passphrase)
        /\ users[u] # NoRow
        /\ users[u].passphrase_salt = None
        /\ users[u].encrypted_private_key.svc = "master"

\* C4: for a record with a passphrase salt get_decrypted_private_key returns
\* the plaintext key only for the correct passphrase; without a passphrase it
\* raises "Passphrase required", with a wrong one "Incorrect passphrase"; for
\* a record without a salt it decrypts with the master key whatever the
\* passphrase argument is.
C4_DecryptDispatch ==
    \A u \in Users :
        (/\ db_call.op = "get_decrypted_private_key"
         /\ db_call.telegram_id = u
         /\ users[u] # NoRow) =>
            IF Truthy(users[u].passphrase_salt)
            THEN /\ ~Truthy(db_call.passphrase)
                      => db_call.raised = "ValueError: Passphrase required"
                 /\ (Truthy(db_call.passphrase)
                        /\ db_call.passphrase # last_write[u].passphrase)
                      => db_call.raised = "ValueError: Incorrect passphrase"
                 /\ db_call.passphrase = last_write[u].passphrase
                      => /\ db_call.raised = "none"
                         /\ db_call.ret = last_write[u].private_key
                 /\ db_call.raised # "none" => db_call.ret = EmptyKey
            ELSE /\ db_call.raised = "none"
                 /\ ~db_call.is_none
                 /\ db_call.ret = Normal0x(last_write[u].private_key)

\* the key of a passphrase wallet was asked for without a passphrase
C4_Witness ==
    \E u \in Users :
        /\ db_call.op = "get_decrypted_private_key"
        /\ db_call.telegram_id = u
        /\ users[u] # NoRow
        /\ Truthy(users[u].passphrase_salt)
        /\ ~Truthy(db_call.passphrase)
        /\ db_call.raised = "ValueError: Passphrase required"

\* C7: for a user with no stored wallet, update_user_wallet completes without
\* error and leaves one users row and one user_settings row, whether or not a
\* user_settings row had been created lazily before.
C7_FirstWalletStored ==
    \A u \in Users :
        (/\ db_call.op = "update_user_wallet"
         /\ db_call.telegram_id = u
         /\ ~db_call.had_user) =>
            /\ db_call.raised = "none"
            /\ users[u] # NoRow
            /\ user_settings[u] # NoRow

(***************************************************************************)
(* Conversation controller (main.py)                                       *)
(***************************************************************************)
\* ConversationHandler.END leaves the conversation, which is then Idle
END == "Idle"

AwaitingStates ==
    {"AwaitingTokenAddress", "AwaitingPrivateKey", "AwaitingBuyCustomAmount",
     "AwaitingSellCustomAmount", "AwaitingSetPassphrase",
     "AwaitingConfirmPassphrase", "AwaitingTransactionPassphrase"}

TokenAddress == "0xToken"
TokenInfo == "info(0xToken)"

\* security_passphrase.validate_passphrase: acceptable from 8 characters on
validate_passphrase(candidate) == Len(candidate) >= 8

\* a passphrase typed with a blank before and after it
PaddedPass == " pass-one1 "

\* str.strip() of the texts a user sends: of these only PaddedPass has
\* surrounding whitespace
strip(text) == IF text = PaddedPass THEN "pass-one1" ELSE text

\* Decimal(text) of the amount texts a user sends: [ok, value]
ParseAmount(text) ==
    IF text = "2" THEN [ok |-> TRUE, value |-> 2]
    ELSE IF text = "3" THEN [ok |-> TRUE, value |-> 3]
    ELSE IF text = "0" THEN [ok |-> TRUE, value |-> 0]
    ELSE [ok |-> FALSE, value |-> 0]

\* the RPC and chain outcomes the handlers' trading calls meet
BotEnvs ==
    [info_ok : {TRUE}, decimals : {0}, allowance_read_ok : {TRUE},
     approve_send_ok : BOOLEAN, approve_mined : {TRUE}, quote_ok : {TRUE},
     swap_send_ok : BOOLEAN, expected_output : Quotes]

Update(u, handler, raised, trade) ==
    [user |-> u, handler |-> handler, raised |-> raised, trade |-> trade]

\* The handler returned new_state: the conversation moves there.  A handler
\* that raised leaves the conversation where it was.
Returns(u, new_state) == conv' = [conv EXCEPT ![u] = new_state]
Raises(u) == conv' = conv

SetUserData(u, field, value) == [user_data EXCEPT ![u][field] = value]

\* the contents of the messages the menus edit
MainMenuContent == [NoContent EXCEPT !.screen = "main_menu"]
SlippageMenuContent == [NoContent EXCEPT !.screen = "set_slippage"]
GasMenuContent == [NoContent EXCEPT !.screen = "set_gas"]

\* the settings text with get_settings_keyboard: the buttons show the
\* slippage, the gas mode and whether Anti-MEV is on
SettingsContent(settings) ==
    [screen |-> "settings", slippage |-> settings.slippage,
     gas |-> settings.gas_price_mode,
     anti_mev |-> IF settings.anti_mev # 0 THEN 1 ELSE 0]

\* the handlers whose message the model follows
MenuHandlers ==
    {"button_menu", "button_settings", "button_set_slippage", "button_set_gas",
     "button_gas", "button_slippage", "button_toggle_mev"}

\* the content of the message the pressed button is on
CurrentContent(u) ==
    IF last_update.user = u /\ last_update.handler \in MenuHandlers
    THEN shown[u] ELSE NoContent

\* query.edit_message_text, then "return ConversationHandler.END": the
\* platform refuses an edit whose text and keyboard are the ones shown with
\* BadRequest "Message is not modified", which leaves the handler
edit_message_text(u, handler, content) ==
    IF CurrentContent(u) = content
    THEN /\ UNCHANGED shown
         /\ Raises(u)
         /\ last_update' = Update(u, handler, "BadRequest: Message is not modified", "none")
    ELSE /\ shown' = [shown EXCEPT ![u] = content]
         /\ Returns(u, END)
         /\ last_update' = Update(u, handler, "none", "none")

\* safe_edit_message, then "return ConversationHandler.END": the refusal is
\* caught and the message stays as it is
safe_edit_message(u, handler, content) ==
    /\ shown' = [shown EXCEPT ![u] = content]
    /\ Returns(u, END)
    /\ last_update' = Update(u, handler, "none", "none")

\* button_callback: main_menu
button_menu(u) ==
    /\ safe_edit_message(u, "button_menu", MainMenuContent)
    /\ UNCHANGED <<dbVars, chainVars, quietVars, user_context, user_data>>

\* button_callback: set_slippage, the list of the slippage options
button_set_slippage(u) ==
    /\ edit_message_text(u, "button_set_slippage", SlippageMenuContent)
    /\ UNCHANGED <<dbVars, chainVars, quietVars, user_context, user_data>>

\* button_callback: set_gas, the list of the gas modes
button_set_gas(u) ==
    /\ edit_message_text(u, "button_set_gas", GasMenuContent)
    /\ UNCHANGED <<dbVars, chainVars, quietVars, user_context, user_data>>

\* button_callback: import_wallet_first, import_wallet
button_import_wallet(u) ==
    /\ Returns(u, "AwaitingPrivateKey")
    /\ last_update' = Update(u, "button_import_wallet", "none", "none")
    /\ UNCHANGED <<dbVars, chainVars, monitorVars, user_context, user_data>>

\* handle_private_key_import
handle_private_key_import(u, text) ==
    /\ conv[u] = "AwaitingPrivateKey"
    /\ LET address == IF KeyValid(text) THEN AddressOf(Normal0x(text)) ELSE None
       IN IF address = None
          THEN /\ Returns(u, "AwaitingPrivateKey")
               /\ last_update' = Update(u, "handle_private_key_import:invalid", "none", "none")
               /\ UNCHANGED user_data
          ELSE /\ user_data' = [user_data EXCEPT ![u].pending_private_key = text,
                                                 ![u].pending_address = address]
               /\ Returns(u, "AwaitingPrivateKey")
               /\ last_update' = Update(u, "handle_private_key_import", "none", "none")
    /\ UNCHANGED <<dbVars, chainVars, monitorVars, user_context>>

\* a wallet write of a handler: the tables and the ghost of the last write
StoreWallet(u, r, passphrase, private_key) ==
    /\ users' = r.users
    /\ user_settings' = r.user_settings
    /\ last_write' = IF r.wrote
                     THEN [last_write EXCEPT ![u] = WalletWrite(passphrase, private_key)]
                     ELSE last_write

\* button_callback: import_mode_quick
button_import_mode_quick(u) ==
    LET private_key == user_data[u].pending_private_key
        address == user_data[u].pending_address
        r == update_user_wallet(users, user_settings, u, address, private_key,
                                None, None)
    IN /\ IF private_key = EmptyKey \/ address = None
          THEN /\ Returns(u, END)
               /\ last_update' = Update(u, "button_import_mode_quick:expired", "none", "none")
               /\ UNCHANGED <<users, user_settings, last_write, user_data>>
          ELSE /\ StoreWallet(u, r, None, private_key)
               /\ IF r.raised # "none"
                  THEN /\ Raises(u)
                       /\ UNCHANGED user_data
                  ELSE /\ Returns(u, END)
                       /\ user_data' = [user_data EXCEPT
                                           ![u].pending_private_key = EmptyKey,
                                           ![u].pending_address = None]
               /\ last_update' = Update(u, "button_import_mode_quick", r.raised, "none")
       /\ UNCHANGED <<token_history, last_gas, db_call, chainVars, monitorVars, user_context>>

\* button_callback: import_mode_secure
button_import_mode_secure(u) ==
    /\ Returns(u, "AwaitingSetPassphrase")
    /\ last_update' = Update(u, "button_import_mode_secure", "none", "none")
    /\ UNCHANGED <<dbVars, chainVars, monitorVars, user_context, user_data>>

\* handle_set_passphrase
handle_set_passphrase(u, text) ==
    /\ conv[u] = "AwaitingSetPassphrase"
    /\ IF ~validate_passphrase(strip(text))
       THEN /\ Returns(u, "AwaitingSetPassphrase")
            /\ last_update' = Update(u, "handle_set_passphrase:invalid", "none", "none")
            /\ UNCHANGED user_data
       ELSE /\ user_data' = SetUserData(u, "pending_passphrase", strip(text))
            /\ Returns(u, "AwaitingConfirmPassphrase")
            /\ last_update' = Update(u, "handle_set_passphrase", "none", "none")
    /\ UNCHANGED <<dbVars, chainVars, monitorVars, user_context>>

\* a handler that stores the wallet without comparing the two entries
handle_confirm_passphrase_unchecked(u, text, salt) ==
    LET confirm == strip(text)
        passphrase == user_data[u].pending_passphrase
        private_key == user_data[u].pending_private_key
        address == user_data[u].pending_address
        r == update_user_wallet(users, user_settings, u, address, private_key,
                                passphrase, salt)
    IN /\ conv[u] = "AwaitingConfirmPassphrase"
       /\ IF ~Truthy(passphrase) \/ private_key = EmptyKey \/ ~Truthy(address)
          THEN /\ Returns(u, END)
               /\ last_update' = Update(u, "handle_confirm_passphrase:expired", "none", "none")
               /\ UNCHANGED <<users, user_settings, last_write, user_data>>
          ELSE IF FALSE
          THEN /\ user_data' = SetUserData(u, "pending_passphrase", None)
               /\ Returns(u, "AwaitingSetPassphrase")
               /\ last_update' = Update(u, "handle_confirm_passphrase:mismatch", "none", "none")
               /\ UNCHANGED <<users, user_settings, last_write>>
          ELSE /\ StoreWallet(u, r, passphrase, private_key)
               /\ IF r.raised # "none"
                  THEN /\ Raises(u)
                       /\ UNCHANGED user_data
                  ELSE /\ Returns(u, END)
                       /\ user_data' = [user_data EXCEPT
                                           ![u].pending_private_key = EmptyKey,
                                           ![u].pending_address = None,
                                           ![u].pending_passphrase = None]
               /\ last_update' = Update(u, "handle_confirm_passphrase", r.raised, "none")
       /\ UNCHANGED <<token_history, last_gas, db_call, chainVars, monitorVars, user_context>>

\* handle_confirm_passphrase
handle_confirm_passphrase(u, text, salt) ==
    LET confirm == strip(text)
        passphrase == user_data[u].pending_passphrase
        private_key == user_data[u].pending_private_key
        address == user_data[u].pending_address
        r == update_user_wallet(users, user_settings, u, address, private_key,
                                passphrase, salt)
    IN /\ conv[u] = "AwaitingConfirmPassphrase"
       /\ IF ~Truthy(passphrase) \/ private_key = EmptyKey \/ ~Truthy(address)
          THEN /\ Returns(u, END)
               /\ last_update' = Update(u, "handle_confirm_passphrase:expired", "none", "none")
               /\ UNCHANGED <<users, user_settings, last_write, user_data>>
          ELSE IF confirm # passphrase
          THEN /\ user_data' = SetUserData(u, "pending_passphrase", None)
               /\ Returns(u, "AwaitingSetPassphrase")
               /\ last_update' = Update(u, "handle_confirm_passphrase:mismatch", "none", "none")
               /\ UNCHANGED <<users, user_settings, last_write>>
          ELSE /\ StoreWallet(u, r, passphrase, private_key)
               /\ IF r.raised # "none"
                  THEN /\ Raises(u)
                       /\ UNCHANGED user_data
                  ELSE /\ Returns(u, END)
                       /\ user_data' = [user_data EXCEPT
                                           ![u].pending_private_key = EmptyKey,
                                           ![u].pending_address = None,
                                           ![u].pending_passphrase = None]
               /\ last_update' = Update(u, "handle_confirm_passphrase", r.raised, "none")
       /\ UNCHANGED <<token_history, last_gas, db_call, chainVars, monitorVars, user_context>>

\* button_callback: confirm_new_wallet
button_confirm_new_wallet(u) ==
    LET r == update_user_wallet(users, user_settings, u, AddressOf(KeyG), KeyG,
                                None, None)
    IN /\ StoreWallet(u, r, None, KeyG)
       /\ IF r.raised # "none" THEN Raises(u) ELSE Returns(u, END)
       /\ last_update' = Update(u, "button_confirm_new_wallet", r.raised, "none")
       /\ UNCHANGED <<token_history, last_gas, db_call, chainVars, monitorVars, user_context, user_data>>

\* a create_new_wallet that already writes the new wallet
button_create_new_wallet_writes(u) ==
    LET r == update_user_wallet(users, user_settings, u, AddressOf(KeyG), KeyG,
                                None, None)
    IN /\ StoreWallet(u, r, None, KeyG)
       /\ Returns(u, END)
       /\ last_update' = Update(u, "button_create_new_wallet", "none", "none")
       /\ UNCHANGED <<token_history, last_gas, db_call, chainVars, monitorVars, user_context, user_data>>

\* button_callback: create_new_wallet, the warning with its two buttons
button_create_new_wallet(u) ==
    /\ Returns(u, END)
    /\ last_update' = Update(u, "button_create_new_wallet", "none", "none")
    /\ UNCHANGED <<dbVars, chainVars, monitorVars, user_context, user_data>>

\* button_callback: settings
button_settings(u) ==
    /\ user_settings' = get_user_settings(user_settings, u)
    /\ safe_edit_message(u, "button_settings", SettingsContent(user_settings'[u]))
    /\ UNCHANGED <<users, token_history, last_write, last_gas, db_call, chainVars, quietVars,
                   user_context, user_data>>

\* data.split("_")[1] of the callback data, given as the list of its parts
SplitIndex1(parts) == parts[2]

\* the settings handlers end by reading the settings back for the keyboard
SettingsUpdated(u, handler, column, value) ==
    /\ user_settings' = get_user_settings(
                            update_user_settings(user_settings, u,
                                                 [c \in {column} |-> value]), u)
    /\ edit_message_text(u, handler, SettingsContent(user_settings'[u]))
    /\ UNCHANGED <<users, token_history, last_write, db_call, chainVars, quietVars,
                   user_context, user_data>>

\* the tier a gas button names: its callback data after the "gas_" prefix
ButtonTier(data) ==
    IF Len(data) = 2 THEN data[2] ELSE data[2] \o "_" \o data[3]

\* button_callback: gas_normal, gas_fast, gas_very_fast
button_gas(u, data) ==
    /\ SettingsUpdated(u, "button_gas", "gas_price_mode", SplitIndex1(data))
    /\ last_gas' = [last_gas EXCEPT ![u] = ButtonTier(data)]

\* button_callback: slippage_<value>
button_slippage(u, data) ==
    /\ SettingsUpdated(u, "button_slippage", "slippage", SplitIndex1(data))
    /\ UNCHANGED last_gas

\* button_callback: toggle_mev
button_toggle_mev(u) ==
    LET settings == get_user_settings(user_settings, u)[u]
        new_mev == IF settings.anti_mev # 0 THEN 0 ELSE 1
    IN /\ user_settings' = update_user_settings(get_user_settings(user_settings, u),
                                                u, [c \in {"anti_mev"} |-> new_mev])
       /\ edit_message_text(u, "button_toggle_mev", SettingsContent(user_settings'[u]))
       /\ UNCHANGED <<users, token_history, last_write, last_gas, db_call, chainVars, quietVars,
                      user_context, user_data>>

BuyContext == [action |-> "buy", token_address |-> TokenAddress, token_info |-> TokenInfo]
SellContext == [action |-> "sell", token_address |-> TokenAddress]

HasContext(u, action) == user_context[u] # NoRow /\ user_context[u].action = action

DelContext(u) == user_context' = [user_context EXCEPT ![u] = NoRow]

\* the chain after a trading call of a handler
Submitted(r) ==
    /\ chain_txs' = chain_txs \o r.txs
    /\ allowance' = r.allowance
    /\ UNCHANGED <<trade_call, quote_call, monitorVars>>

RoomFor(n) == Len(chain_txs) + n <= MaxTxs

\* button_callback: buy_token
button_buy_token(u) ==
    /\ Returns(u, "AwaitingTokenAddress")
    /\ last_update' = Update(u, "button_buy_token", "none", "none")
    /\ UNCHANGED <<dbVars, chainVars, monitorVars, user_context, user_data>>

\* handle_token_address
handle_token_address(u, text, info_ok) ==
    /\ conv[u] = "AwaitingTokenAddress"
    /\ IF text # TokenAddress
       THEN /\ Returns(u, "AwaitingTokenAddress")
            /\ last_update' = Update(u, "handle_token_address:invalid", "none", "none")
            /\ UNCHANGED user_context
       ELSE IF ~info_ok
       THEN /\ Returns(u, END)
            /\ last_update' = Update(u, "handle_token_address:no_info", "none", "none")
            /\ UNCHANGED user_context
       ELSE /\ user_context' = [user_context EXCEPT ![u] = BuyContext]
            /\ Returns(u, END)
            /\ last_update' = Update(u, "handle_token_address", "none", "none")
    /\ UNCHANGED <<dbVars, chainVars, monitorVars, user_data>>

\* button_callback: buy_custom
button_buy_custom(u) ==
    /\ Returns(u, "AwaitingBuyCustomAmount")
    /\ last_update' = Update(u, "button_buy_custom", "none", "none")
    /\ UNCHANGED <<dbVars, chainVars, monitorVars, user_context, user_data>>

\* The tail shared by the handlers that trade with the master-key wallet:
\* get_decrypted_private_key(user_id) without a passphrase, the trading call,
\* the history row on success, and the removal of the user_context entry.
\* key is the KeyResult, r the TradeResult of the call made with that key.
TradeNow(u, handler, action, amount, key, r) ==
    IF users[u] = NoRow
    THEN \* user.wallet_address of None
         /\ Raises(u)
         /\ last_update' = Update(u, handler, "AttributeError", "none")
         /\ UNCHANGED <<token_history, chainVars, monitorVars, user_context>>
    ELSE IF key.raised # "none"
    THEN /\ Raises(u)
         /\ last_update' = Update(u, handler, key.raised, "none")
         /\ UNCHANGED <<token_history, chainVars, monitorVars, user_context>>
    ELSE /\ Submitted(r)
         /\ token_history' =
               IF r.ok
               THEN add_token_history(token_history, u, TokenAddress, action,
                                      amount, r.tx_hash)
               ELSE token_history
         /\ DelContext(u)
         /\ Returns(u, END)
         /\ last_update' = Update(u, handler, "none", IF r.ok THEN "ok" ELSE "failed")

\* handle_buy_amount (button_callback: buy_<amount>)
handle_buy_amount(u, data, env) ==
    LET amount == SplitIndex1(data)
        user == users[u]
        settings == get_user_settings(user_settings, u)[u]
        key == get_decrypted_private_key(users, u, None)
        r == buy_token(allowance, chain_txs, amount, key.ret, settings.slippage,
                       settings.gas_price_mode, env)
    IN /\ RoomFor(1)
       /\ IF ~HasContext(u, "buy")
          THEN /\ Returns(u, END)
               /\ last_update' = Update(u, "handle_buy_amount:expired", "none", "none")
               /\ UNCHANGED <<user_settings, token_history, chainVars, monitorVars,
                              user_context, user_data>>
          ELSE /\ user_settings' = get_user_settings(user_settings, u)
               /\ IF user # NoRow /\ Truthy(user.passphrase_salt)
                  THEN /\ user_data' =
                            [user_data EXCEPT
                                ![u].pending_buy =
                                    [token_address |-> user_context[u].token_address,
                                     amount |-> amount,
                                     slippage |-> settings.slippage,
                                     gas_mode |-> settings.gas_price_mode],
                                ![u].current_token_info = user_context[u].token_info]
                       /\ Returns(u, "AwaitingTransactionPassphrase")
                       /\ last_update' = Update(u, "handle_buy_amount:secure", "none", "none")
                       /\ UNCHANGED <<token_history, chainVars, monitorVars, user_context>>
                  ELSE /\ TradeNow(u, "handle_buy_amount", "buy", amount, key, r)
                       /\ UNCHANGED user_data
       /\ UNCHANGED <<users, last_write, last_gas, db_call>>

\* handle_buy_custom_amount_input
handle_buy_custom_amount_input(u, text, env) ==
    LET parsed == ParseAmount(text)
        amount == parsed.value
        settings == get_user_settings(user_settings, u)[u]
        key == get_decrypted_private_key(users, u, None)
        r == buy_token(allowance, chain_txs, amount, key.ret, settings.slippage,
                       settings.gas_price_mode, env)
    IN /\ conv[u] = "AwaitingBuyCustomAmount"
       /\ RoomFor(1)
       /\ IF ~parsed.ok \/ amount <= 0
          THEN /\ Returns(u, "AwaitingBuyCustomAmount")
               /\ last_update' = Update(u, "handle_buy_custom_amount_input:invalid",
                                        "none", "none")
               /\ UNCHANGED <<user_settings, token_history, chainVars, monitorVars, user_context>>
          ELSE IF ~HasContext(u, "buy")
          THEN /\ Returns(u, END)
               /\ last_update' = Update(u, "handle_buy_custom_amount_input:expired",
                                        "none", "none")
               /\ UNCHANGED <<user_settings, token_history, chainVars, monitorVars, user_context>>
          ELSE /\ user_settings' = get_user_settings(user_settings, u)
               /\ TradeNow(u, "handle_buy_custom_amount_input", "buy", amount, key, r)
       /\ UNCHANGED <<users, last_write, last_gas, db_call, user_data>>

\* button_callback: sell_<token address>
button_sell(u, info_ok) ==
    /\ user_context' = [user_context EXCEPT ![u] = SellContext]
    /\ IF ~info_ok
       THEN /\ Returns(u, END)
            /\ last_update' = Update(u, "button_sell:no_info", "none", "none")
       ELSE IF users[u] = NoRow
       THEN /\ Raises(u)
            /\ last_update' = Update(u, "button_sell", "AttributeError", "none")
       ELSE /\ Returns(u, END)
            /\ last_update' = Update(u, "button_sell", "none", "none")
    /\ UNCHANGED <<dbVars, chainVars, monitorVars, user_data>>

\* button_callback: sell_custom
button_sell_custom(u) ==
    /\ IF ~HasContext(u, "sell")
       THEN /\ Returns(u, END)
            /\ last_update' = Update(u, "button_sell_custom:expired", "none", "none")
       ELSE IF users[u] = NoRow
       THEN /\ Raises(u)
            /\ last_update' = Update(u, "button_sell_custom", "AttributeError", "none")
       ELSE /\ Returns(u, "AwaitingSellCustomAmount")
            /\ last_update' = Update(u, "button_sell_custom", "none", "none")
    /\ UNCHANGED <<dbVars, chainVars, monitorVars, user_context, user_data>>

\* button_callback: confirm_sell_<percentage>; balance is what
\* get_token_balance reads for the wallet
button_confirm_sell(u, percentage, balance, env) ==
    LET amount_to_sell == (balance * percentage) \div 100
        settings == get_user_settings(user_settings, u)[u]
        key == get_decrypted_private_key(users, u, None)
        r == sell_token(allowance, chain_txs, amount_to_sell, key.ret,
                        settings.slippage, settings.gas_price_mode, env)
    IN /\ RoomFor(2)
       /\ IF ~HasContext(u, "sell")
          THEN /\ Returns(u, END)
               /\ last_update' = Update(u, "button_confirm_sell:expired", "none", "none")
               /\ UNCHANGED <<user_settings, token_history, chainVars, monitorVars, user_context>>
          ELSE IF users[u] = NoRow
          THEN /\ Raises(u)
               /\ last_update' = Update(u, "button_confirm_sell", "AttributeError", "none")
               /\ UNCHANGED <<user_settings, token_history, chainVars, monitorVars, user_context>>
          ELSE /\ user_settings' = get_user_settings(user_settings, u)
               /\ TradeNow(u, "button_confirm_sell", "sell", amount_to_sell, key, r)
       /\ UNCHANGED <<users, last_write, last_gas, db_call, user_data>>

\* handle_sell_custom_amount_input
handle_sell_custom_amount_input(u, text, balance, env) ==
    LET parsed == ParseAmount(text)
        amount == parsed.value
        settings == get_user_settings(user_settings, u)[u]
        key == get_decrypted_private_key(users, u, None)
        r == sell_token(allowance, chain_txs, amount, key.ret, settings.slippage,
                        settings.gas_price_mode, env)
    IN /\ conv[u] = "AwaitingSellCustomAmount"
       /\ RoomFor(2)
       /\ IF ~parsed.ok \/ amount <= 0
          THEN /\ Returns(u, "AwaitingSellCustomAmount")
               /\ last_update' = Update(u, "handle_sell_custom_amount_input:invalid",
                                        "none", "none")
               /\ UNCHANGED <<user_settings, token_history, chainVars, monitorVars, user_context>>
          ELSE IF ~HasContext(u, "sell")
          THEN /\ Returns(u, END)
               /\ last_update' = Update(u, "handle_sell_custom_amount_input:expired",
                                        "none", "none")
               /\ UNCHANGED <<user_settings, token_history, chainVars, monitorVars, user_context>>
          ELSE IF users[u] = NoRow
          THEN /\ Raises(u)
               /\ last_update' = Update(u, "handle_sell_custom_amount_input",
                                        "AttributeError", "none")
               /\ UNCHANGED <<user_settings, token_history, chainVars, monitorVars, user_context>>
          ELSE IF amount > balance
          THEN /\ Returns(u, END)
               /\ last_update' = Update(u, "handle_sell_custom_amount_input:balance",
                                        "none", "none")
               /\ UNCHANGED <<user_settings, token_history, chainVars, monitorVars, user_context>>
          ELSE /\ user_settings' = get_user_settings(user_settings, u)
               /\ TradeNow(u, "handle_sell_custom_amount_input", "sell", amount, key, r)
       /\ UNCHANGED <<users, last_write, last_gas, db_call, user_data>>

\* a handler that asks for the passphrase again after an incorrect one, as a
\* passphrase prompt that loops would
handle_transaction_passphrase_reprompt(u, passphrase, env) ==
    LET user == users[u]
        pending_buy == user_data[u].pending_buy
        key == get_decrypted_private_key(users, u, strip(passphrase))
        r == buy_token(allowance, chain_txs, pending_buy.amount, key.ret,
                       pending_buy.slippage, pending_buy.gas_mode, env)
    IN /\ conv[u] = "AwaitingTransactionPassphrase"
       /\ RoomFor(1)
       /\ IF user = NoRow
          THEN /\ Returns(u, END)
               /\ last_update' = Update(u, "handle_transaction_passphrase:no_user",
                                        "none", "none")
               /\ UNCHANGED <<chainVars, monitorVars, user_data>>
          ELSE IF key.raised # "none"
          THEN /\ Returns(u, "AwaitingTransactionPassphrase")
               /\ last_update' = Update(u, "handle_transaction_passphrase:" \o key.raised,
                                        "none", "none")
               /\ UNCHANGED <<chainVars, monitorVars, user_data>>
          ELSE IF pending_buy # NoRow
          THEN /\ Returns(u, END)
               /\ Submitted(r)
               /\ user_data' = SetUserData(u, "pending_buy", NoRow)
               /\ last_update' = Update(u, "handle_transaction_passphrase", "none",
                                        IF r.ok THEN "ok" ELSE "failed")
          ELSE /\ Returns(u, END)
               /\ last_update' = Update(u, "handle_transaction_passphrase:no_pending",
                                        "none", "none")
               /\ UNCHANGED <<chainVars, monitorVars, user_data>>
       /\ UNCHANGED <<dbVars, user_context>>

\* handle_transaction_passphrase
handle_transaction_passphrase(u, passphrase, env) ==
    LET user == users[u]
        pending_buy == user_data[u].pending_buy
        key == get_decrypted_private_key(users, u, strip(passphrase))
        r == buy_token(allowance, chain_txs, pending_buy.amount, key.ret,
                       pending_buy.slippage, pending_buy.gas_mode, env)
    IN /\ conv[u] = "AwaitingTransactionPassphrase"
       /\ RoomFor(1)
       /\ Returns(u, END)
       /\ IF user = NoRow
          THEN /\ last_update' = Update(u, "handle_transaction_passphrase:no_user",
                                        "none", "none")
               /\ UNCHANGED <<chainVars, monitorVars, user_data>>
          ELSE IF key.raised # "none"
          THEN \* except ValueError / except Exception: reported, not re-raised
               /\ last_update' = Update(u, "handle_transaction_passphrase:" \o key.raised,
                                        "none", "none")
               /\ UNCHANGED <<chainVars, monitorVars, user_data>>
          ELSE IF pending_buy # NoRow
          THEN /\ Submitted(r)
               /\ user_data' = SetUserData(u, "pending_buy", NoRow)
               /\ last_update' = Update(u, "handle_transaction_passphrase", "none",
                                        IF r.ok THEN "ok" ELSE "failed")
          ELSE /\ last_update' = Update(u, "handle_transaction_passphrase:no_pending",
                                        "none", "none")
               /\ UNCHANGED <<chainVars, monitorVars, user_data>>
       /\ UNCHANGED <<dbVars, user_context>>

\* button_callback: confirm_show_pk
button_confirm_show_pk(u) ==
    LET key == get_decrypted_private_key(users, u, None)
    IN /\ IF users[u] = NoRow
          THEN /\ Returns(u, END)
               /\ last_update' = Update(u, "button_confirm_show_pk:no_user", "none", "none")
          ELSE IF key.raised # "none"
          THEN /\ Raises(u)
               /\ last_update' = Update(u, "button_confirm_show_pk", key.raised, "none")
          ELSE /\ Returns(u, END)
               /\ last_update' = Update(u, "button_confirm_show_pk", "none", "none")
       /\ UNCHANGED <<dbVars, chainVars, monitorVars, user_context, user_data>>

\* cancel: the fallback, reached only from a state of the conversation
cancel(u) ==
    /\ conv[u] \in AwaitingStates
    /\ DelContext(u)
    /\ Returns(u, END)
    /\ last_update' = Update(u, "cancel", "none", "none")
    /\ UNCHANGED <<dbVars, chainVars, monitorVars, user_data>>

(***************************************************************************)
(* The send flow (send_receive_handlers)                                   *)
(***************************************************************************)
HexDigits ==
    {"0", "1", "2", "3", "4", "5", "6", "7", "8", "9",
     "a", "b", "c", "d", "e", "f", "A", "B", "C", "D", "E", "F"}

\* Web3.to_checksum_address takes the recipient: 0x and 40 hex digits
ChecksumOk(address) ==
    /\ Len(address) = 42
    /\ \A i \in 3..42 : address[i] \in HexDigits

\* Decimal(text) of the amount texts a user sends
SendAmountTexts == {"1", "2", "3", "0", "-1", "abc", "NaN", "Infinity"}
DecimalOf(text) ==
    IF text = "1" THEN [kind |-> "finite", value |-> 1]
    ELSE IF text = "2" THEN [kind |-> "finite", value |-> 2]
    ELSE IF text = "3" THEN [kind |-> "finite", value |-> 3]
    ELSE IF text = "0" THEN [kind |-> "finite", value |-> 0]
    ELSE IF text = "-1" THEN [kind |-> "finite", value |-> -1]
    ELSE IF text = "NaN" THEN [kind |-> "nan", value |-> 0]
    ELSE IF text = "Infinity" THEN [kind |-> "inf", value |-> 0]
    ELSE [kind |-> "invalid", value |-> 0]

\* "amount = Decimal(...)", "if amount <= 0: raise" under the bare except: the
\* comparison of a NaN raises as well
AmountRejected(d) ==
    \/ d.kind \in {"invalid", "nan"}
    \/ d.kind = "finite" /\ d.value <= 0

\* "amount > balance" of two Decimals
ExceedsBalance(d, balance) ==
    \/ d.kind = "inf"
    \/ d.kind = "finite" /\ d.value > balance

SendCall(u, handler, outcome, text, recipient, amount, balance) ==
    [user |-> u, handler |-> handler, outcome |-> outcome, text |-> text,
     recipient |-> recipient, amount |-> amount, balance |-> balance]

SendToken(symbol, balance, recipient, amount) ==
    [symbol |-> symbol, balance |-> balance, recipient |-> recipient, amount |-> amount]

\* handle_send_select_token: the token is looked up in the wallet's holdings
\* and cached with its balance
handle_send_select_token(u, symbol, balances) ==
    LET all_tokens == get_wallet_all_tokens(balances)
    IN /\ IF users[u] = NoRow
          THEN \* user.wallet_address of None
               /\ Raises(u)
               /\ send_call' = SendCall(u, "handle_send_select_token", "raised",
                                        <<>>, <<>>, 0, 0)
               /\ UNCHANGED user_data
          ELSE IF symbol \notin DOMAIN all_tokens
          THEN /\ Returns(u, END)
               /\ send_call' = SendCall(u, "handle_send_select_token", "not_found",
                                        <<>>, <<>>, 0, 0)
               /\ UNCHANGED user_data
          ELSE /\ user_data' = SetUserData(u, "send_token",
                                  SendToken(symbol, LToInt(all_tokens[symbol].balance), <<>>, 0))
               /\ Returns(u, "AwaitingSendAddress")
               /\ send_call' = SendCall(u, "handle_send_select_token", "selected",
                                        <<>>, <<>>, 0, LToInt(all_tokens[symbol].balance))
       /\ last_update' = Update(u, "handle_send_select_token", "none", "none")
       /\ UNCHANGED <<dbVars, chainVars, user_context>>
       /\ UNCHANGED <<token_snapshots, monitor_call, monitor_loop, waterfall, verified_call, cipher_call, shown, event_loop, account, portfolio_call, price_cache, now>>

\* an address step that stores whatever was typed
handle_send_address_input_any(u, text) ==
    LET address == strip_text(text)
        token == user_data[u].send_token
    IN /\ conv[u] = "AwaitingSendAddress"
       /\ token # NoRow
       /\ user_data' = SetUserData(u, "send_token", [token EXCEPT !.recipient = address])
       /\ Returns(u, "AwaitingSendAmount")
       /\ send_call' = SendCall(u, "handle_send_address_input", "accepted",
                                text, address, 0, token.balance)
       /\ last_update' = Update(u, "handle_send_address_input", "none", "none")
       /\ UNCHANGED <<dbVars, chainVars, user_context>>
       /\ UNCHANGED <<token_snapshots, monitor_call, monitor_loop, waterfall, verified_call, cipher_call, shown, event_loop, account, portfolio_call, price_cache, now>>

\* handle_send_address_input
handle_send_address_input(u, text) ==
    LET address == strip_text(text)
        token == user_data[u].send_token
    IN /\ conv[u] = "AwaitingSendAddress"
       /\ IF ~startswith(address, <<"0", "x">>) \/ Len(address) # 42
          THEN /\ Returns(u, "AwaitingSendAddress")
               /\ send_call' = SendCall(u, "handle_send_address_input", "invalid",
                                        text, <<>>, 0, 0)
               /\ UNCHANGED user_data
          ELSE IF token = NoRow
          THEN \* context.user_data['send_token'] of a dict without the key
               /\ Raises(u)
               /\ send_call' = SendCall(u, "handle_send_address_input", "raised",
                                        text, <<>>, 0, 0)
               /\ UNCHANGED user_data
          ELSE /\ user_data' = SetUserData(u, "send_token",
                                           [token EXCEPT !.recipient = address])
               /\ Returns(u, "AwaitingSendAmount")
               /\ send_call' = SendCall(u, "handle_send_address_input", "accepted",
                                        text, address, 0, token.balance)
       /\ last_update' = Update(u, "handle_send_address_input", "none", "none")
       /\ UNCHANGED <<dbVars, chainVars, user_context>>
       /\ UNCHANGED <<token_snapshots, monitor_call, monitor_loop, waterfall, verified_call, cipher_call, shown, event_loop, account, portfolio_call, price_cache, now>>

\* the transfer of handle_send_amount_input: the native one is built and sent
\* by the handler, the ERC-20 one by blockchain_manager.send_token
SendTransfer(u, token, amount, env) ==
    LET key == get_decrypted_private_key(users, u, None)
    IN IF key.raised # "none" \/ users[u] = NoRow \/ ~ChecksumOk(token.recipient)
       THEN TradeFailed(<<>>, FALSE, allowance)
       ELSE IF token.symbol \in NativeSymbols
       THEN IF ~KeyValid(key.ret) \/ ~env.swap_send_ok
            THEN TradeFailed(<<>>, FALSE, allowance)
            ELSE TradeResult(TRUE, TxHash(Len(chain_txs) + 1), None,
                             <<Tx("native", amount)>>, FALSE, allowance, 0, 0)
       ELSE send_token(allowance, chain_txs, amount, key.ret, env)

\* handle_send_amount_input
handle_send_amount_input(u, text, env) ==
    LET d == DecimalOf(text)
        token == user_data[u].send_token
    IN /\ conv[u] = "AwaitingSendAmount"
       /\ RoomFor(1)
       /\ IF AmountRejected(d)
          THEN /\ Returns(u, "AwaitingSendAmount")
               /\ send_call' = SendCall(u, "handle_send_amount_input", "invalid",
                                        text, <<>>, 0, 0)
               /\ UNCHANGED <<user_data, chainVars>>
          ELSE IF token = NoRow
          THEN /\ Raises(u)
               /\ send_call' = SendCall(u, "handle_send_amount_input", "raised",
                                        text, <<>>, 0, 0)
               /\ UNCHANGED <<user_data, chainVars>>
          ELSE IF ExceedsBalance(d, token.balance)
          THEN /\ Returns(u, "AwaitingSendAmount")
               /\ send_call' = SendCall(u, "handle_send_amount_input", "over_balance",
                                        text, token.recipient, 0, token.balance)
               /\ UNCHANGED <<user_data, chainVars>>
          ELSE LET r == SendTransfer(u, token, d.value, env)
               IN /\ chain_txs' = chain_txs \o r.txs
                  /\ UNCHANGED <<allowance, trade_call, quote_call>>
                  /\ user_data' = SetUserData(u, "send_token",
                                      IF r.ok THEN NoRow
                                      ELSE [token EXCEPT !.amount = d.value])
                  /\ Returns(u, END)
                  /\ send_call' = SendCall(u, "handle_send_amount_input",
                                           IF r.ok THEN "submitted" ELSE "failed",
                                           text, token.recipient, d.value, token.balance)
       /\ last_update' = Update(u, "handle_send_amount_input", "none", "none")
       /\ UNCHANGED <<dbVars, user_context>>
       /\ UNCHANGED <<token_snapshots, monitor_call, monitor_loop, waterfall, verified_call, cipher_call, shown, event_loop, account, portfolio_call, price_cache, now>>

\* cancel_send
cancel_send(u) ==
    /\ conv[u] \in {"AwaitingSendAddress", "AwaitingSendAmount"}
    /\ user_data' = SetUserData(u, "send_token", NoRow)
    /\ Returns(u, END)
    /\ send_call' = SendCall(u, "cancel_send", "cancelled", <<>>, <<>>, 0, 0)
    /\ last_update' = Update(u, "cancel_send", "none", "none")
    /\ UNCHANGED <<dbVars, chainVars, user_context>>
    /\ UNCHANGED <<token_snapshots, monitor_call, monitor_loop, waterfall, verified_call, cipher_call, shown, event_loop, account, portfolio_call, price_cache, now>>

(***************************************************************************)
(* The updates a user sends                                                *)
(***************************************************************************)
KeyTexts == {KeyARaw, BadKey}
PassTexts == Passphrases \cup {"short", PaddedPass}
BuyAmountTexts == {"2", "0", "abc"}
SellAmountTexts == {"2", "3", "0", "abc"}
TokenTexts == {TokenAddress, "junk"}
Balances == {2}
\* callback data, split at "_"
BuyData == {<<"buy", 1>>}
SellPercentages == {100}
GasData == {<<"gas", "normal">>, <<"gas", "fast">>, <<"gas", "very", "fast">>}
SlippageData == {<<"slippage", 5>>, <<"slippage", 10>>, <<"slippage", 50>>,
                 <<"slippage", 100>>}

(***************************************************************************)
(* Wallet import and creation (specification SpecImport)                   *)
(***************************************************************************)
NextImport ==
    \E u \in Users :
        \/ button_menu(u)
        \/ button_import_wallet(u)
        \/ \E text \in KeyTexts : handle_private_key_import(u, text)
        \/ button_import_mode_quick(u)
        \/ button_import_mode_secure(u)
        \/ \E text \in PassTexts : handle_set_passphrase(u, text)
        \/ \E text \in PassTexts, salt \in Salts : handle_confirm_passphrase(u, text, salt)
        \/ button_create_new_wallet(u)
        \/ button_confirm_new_wallet(u)
        \/ button_settings(u)
        \/ button_confirm_show_pk(u)
        \/ cancel(u)

SpecImport == InitFresh /\ [][NextImport]_vars

(***************************************************************************)
(* The settings menu (specification SpecSettings)                          *)
(***************************************************************************)
NextSettings ==
    \E u \in Users :
        \/ button_menu(u)
        \/ button_settings(u)
        \/ button_set_gas(u)
        \/ \E data \in GasData : button_gas(u, data)
        \/ button_set_slippage(u)
        \/ \E data \in SlippageData : button_slippage(u, data)
        \/ button_toggle_mev(u)

SpecSettings == InitFresh /\ [][NextSettings]_vars

(***************************************************************************)
(* The menus as a client presses them (specification SpecMenu)             *)
(***************************************************************************)
\* the callback data of the buttons under a message: get_main_menu_keyboard
\* (the reply to /start, of which the settings button is followed here),
\* get_settings_keyboard and the two option lists
Keyboard(content) ==
    CASE content.screen = "settings" -> {"set_slippage", "set_gas", "toggle_mev", "main_menu"}
      [] content.screen = "set_slippage" -> {"slippage", "settings"}
      [] content.screen = "set_gas" -> {"gas", "settings"}
      [] OTHER -> {"settings"}

\* the button is under the message the user sees
OnKeyboard(u, button) == button \in Keyboard(shown[u])

\* the press that was just handled arrives a second time (a double tap: the
\* second callback query left the client before the message was edited)
DeliveredTwice(u, handler) ==
    /\ last_update.user = u
    /\ last_update.handler = handler
    /\ last_update.raised = "none"

\* a press of a button: one the keyboard shows, or the last one once more
Pressed(u, button, handler) == OnKeyboard(u, button) \/ DeliveredTwice(u, handler)

PressedOption(u, data, handler, stored) ==
    \/ OnKeyboard(u, data[1])
    \/ DeliveredTwice(u, handler) /\ stored = SplitIndex1(data)

NextMenu ==
    \E u \in Users :
        \/ Pressed(u, "main_menu", "button_menu") /\ button_menu(u)
        \/ Pressed(u, "settings", "button_settings") /\ button_settings(u)
        \/ Pressed(u, "set_gas", "button_set_gas") /\ button_set_gas(u)
        \/ \E data \in GasData :
              /\ PressedOption(u, data, "button_gas", get_user_settings(user_settings, u)[u].gas_price_mode)
              /\ button_gas(u, data)
        \/ Pressed(u, "set_slippage", "button_set_slippage") /\ button_set_slippage(u)
        \/ \E data \in SlippageData :
              /\ PressedOption(u, data, "button_slippage", get_user_settings(user_settings, u)[u].slippage)
              /\ button_slippage(u, data)
        \/ Pressed(u, "toggle_mev", "button_toggle_mev") /\ button_toggle_mev(u)

SpecMenu == InitFresh /\ [][NextMenu]_vars

(***************************************************************************)
(* Trading through the bot (specification Spec)                            *)
(***************************************************************************)
\* The wallet a user trades with was stored by an import: import_mode_quick
\* (no passphrase) or handle_confirm_passphrase (with one).  "none" is the
\* user who has not imported a wallet yet.
ImportModes == {"none", "quick", "secure"}
ImportPassphrase(mode) == IF mode = "secure" THEN "pass-one1" ELSE None
Imported(u, mode) ==
    update_user_wallet([x \in Users |-> NoRow], [x \in Users |-> NoRow], u,
                       AddressOf(KeyA), KeyA, ImportPassphrase(mode), "s1")

InitTrading ==
    /\ \E mode \in [Users -> ImportModes] :
          /\ users = [u \in Users |-> IF mode[u] = "none" THEN NoRow
                                      ELSE Imported(u, mode[u]).users[u]]
          /\ user_settings = [u \in Users |-> IF mode[u] = "none" THEN NoRow
                                              ELSE Imported(u, mode[u]).user_settings[u]]
          /\ last_write = [u \in Users |-> IF mode[u] = "none" THEN NoRow
                                           ELSE WalletWrite(ImportPassphrase(mode[u]), KeyA)]
    /\ token_history = <<>>
    /\ last_gas = [u \in Users |-> None]
    /\ db_call = NoDbCall
    /\ allowance = 0
    /\ chain_txs = <<>>
    /\ trade_call = NoTradeCall
    /\ quote_call = NoQuoteCall
    /\ InitBot
    /\ InitMonitor

Next ==
    \E u \in Users :
        \/ button_menu(u)
        \/ button_settings(u)
        \/ \E data \in {<<"gas", "very", "fast">>} : button_gas(u, data)
        \/ button_buy_token(u)
        \/ \E text \in TokenTexts, info_ok \in BOOLEAN : handle_token_address(u, text, info_ok)
        \/ button_buy_custom(u)
        \/ \E data \in BuyData, env \in BotEnvs : handle_buy_amount(u, data, env)
        \/ \E text \in BuyAmountTexts, env \in BotEnvs :
              handle_buy_custom_amount_input(u, text, env)
        \/ \E info_ok \in BOOLEAN : button_sell(u, info_ok)
        \/ button_sell_custom(u)
        \/ \E pct \in SellPercentages, balance \in Balances, env \in BotEnvs :
              button_confirm_sell(u, pct, balance, env)
        \/ \E text \in SellAmountTexts, balance \in Balances, env \in BotEnvs :
              handle_sell_custom_amount_input(u, text, balance, env)
        \/ \E text \in PassTexts, env \in BotEnvs :
              handle_transaction_passphrase(u, text, env)
        \/ button_confirm_show_pk(u)
        \/ cancel(u)

Spec == InitTrading /\ [][Next]_vars

(***************************************************************************)
(* The monitor's checks (specification SpecMonitor)                        *)
(***************************************************************************)
MonitorCall(u, current_tokens, r) ==
    [user |-> u, outcome |-> r.outcome, current_tokens |-> current_tokens,
     last_snapshot |-> get_token_snapshot(token_snapshots, u),
     new_tokens |-> r.new_tokens, messages |-> r.messages]

\* monitor_tokens: one check of one user with notifications enabled
MonitorCheckUser ==
    \E u \in get_users_with_notifications, balances \in WalletBalances :
        LET current_tokens == get_wallet_all_tokens(balances)
            r == check_user_for_new_tokens(token_snapshots, u, current_tokens)
        IN /\ token_snapshots' = r.snapshots
           /\ monitor_call' = MonitorCall(u, current_tokens, r)
           /\ UNCHANGED <<dbVars, chainVars, botVars, monitor_loop, waterfall, verified_call, cipher_call, send_call, shown, event_loop, account, portfolio_call, price_cache, now>>

NextMonitor == MonitorCheckUser

\* the monitor reads the wallet's address only: the wallets are Quick Mode ones
InitMonitoring ==
    /\ InitTrading
    /\ \A u \in Users : users[u] # NoRow => ~Truthy(users[u].passphrase_salt)

SpecMonitor == InitMonitoring /\ [][NextMonitor]_vars

(***************************************************************************)
(* The balance waterfall (specification SpecWaterfall)                     *)
(***************************************************************************)
\* get_wallet_all_tokens is called and runs the Alchemy helper
WaterfallAlchemy ==
    /\ waterfall.pc \in {"idle", "returned"}
    /\ \E outcome \in HelperOutcomes, balances \in WalletBalances :
          waterfall' = tier_done(NoWaterfall, "alchemy", outcome,
                                 get_wallet_all_tokens(balances), "blockvision")
    /\ UNCHANGED <<dbVars, chainVars, botVars, token_snapshots, monitor_call, monitor_loop, verified_call, cipher_call, send_call, shown, event_loop, account, portfolio_call, price_cache, now>>

\* the BlockVision helper
WaterfallBlockVision ==
    /\ waterfall.pc = "blockvision"
    /\ \E outcome \in LegacyOutcomes, balances \in WalletBalances,
          flags \in [Symbols -> BOOLEAN] :
          waterfall' = tier_done(waterfall, "blockvision", outcome,
                                 legacy_tokens(balances, flags), "native")
    /\ UNCHANGED <<dbVars, chainVars, botVars, token_snapshots, monitor_call, monitor_loop, verified_call, cipher_call, send_call, shown, event_loop, account, portfolio_call, price_cache, now>>

\* the direct read of the native balance
WaterfallNative ==
    /\ waterfall.pc = "native"
    /\ \E outcome \in NativeOutcomes, native_balance \in {<<>>} \cup BalancesOf("MON") :
          waterfall' = native_done(waterfall, outcome,
                                   native_tokens(outcome, native_balance))
    /\ UNCHANGED <<dbVars, chainVars, botVars, token_snapshots, monitor_call, monitor_loop, verified_call, cipher_call, send_call, shown, event_loop, account, portfolio_call, price_cache, now>>

NextWaterfall == WaterfallAlchemy \/ WaterfallBlockVision \/ WaterfallNative

\* a call that has begun runs to its return: the helpers have timeouts
SpecWaterfall == InitFresh /\ [][NextWaterfall]_vars /\ WF_vars(NextWaterfall)

(***************************************************************************)
(* The verified-token predicate (specification SpecVerified)               *)
(***************************************************************************)
CallIsTokenVerified ==
    /\ \E token_address \in TokenAddresses, symbol \in TokenSymbols :
          verified_call' = [called |-> TRUE, token_address |-> token_address, symbol |-> symbol,
                            result |-> _is_token_verified(token_address, symbol)]
    /\ UNCHANGED <<dbVars, chainVars, botVars, token_snapshots, monitor_call, monitor_loop, waterfall, cipher_call, send_call, shown, event_loop, account, portfolio_call, price_cache, now>>

NextVerified == CallIsTokenVerified

SpecVerified == InitFresh /\ [][NextVerified]_vars

(***************************************************************************)
(* The master-key service by itself (specification SpecCipher)             *)
(***************************************************************************)
\* plaintexts of up to MaxKeyLen pieces: the prefix "0x", the prefix in upper
\* case and two pairs of digits
MaxKeyLen == 3
KeyPieces == {"0x", "0X", "aa", "gg"}
Plaintexts == UNION {[1..n -> KeyPieces] : n \in 0..MaxKeyLen}

CallEncryptPrivateKey ==
    /\ \E private_key \in Plaintexts :
          LET r == encrypt_private_key(private_key)
          IN cipher_call' = [stage |-> "encrypted", plaintext |-> private_key,
                             ciphertext |-> r.ret, decrypted |-> EmptyKey,
                             raised |-> r.raised]
    /\ UNCHANGED <<dbVars, chainVars, botVars, token_snapshots, monitor_call, monitor_loop, waterfall, verified_call, send_call, shown, event_loop, account, portfolio_call, price_cache, now>>

CallDecryptPrivateKey ==
    /\ cipher_call.stage = "encrypted"
    /\ LET r == decrypt_private_key(cipher_call.ciphertext)
       IN cipher_call' = [cipher_call EXCEPT !.stage = "decrypted",
                                             !.decrypted = r.ret,
                                             !.raised = r.raised]
    /\ UNCHANGED <<dbVars, chainVars, botVars, token_snapshots, monitor_call, monitor_loop, waterfall, verified_call, send_call, shown, event_loop, account, portfolio_call, price_cache, now>>

NextCipher == CallEncryptPrivateKey \/ CallDecryptPrivateKey

SpecCipher == InitFresh /\ [][NextCipher]_vars

(***************************************************************************)
(* The send flow (specification SpecSend)                                  *)
(***************************************************************************)
\* what a user types as the recipient: an address, the address with blanks
\* around it, one in checksum case, one with the prefix in upper case, 0x and
\* 40 letters that are no hex digits, and texts of other lengths or starts
PaddedAddress == <<" ">> \o UnlistedAddress \o <<" ">>
NoHexAddress == <<"0", "x">> \o [i \in 1..40 |-> "z"]
RecipientTexts ==
    {UnlistedAddress, PaddedAddress, WMON_CHECKSUM, USDC_UPPER, NoHexAddress,
     <<"0", "x", "1">>, UnlistedAddress \o <<"1">>, [i \in 1..42 |-> "1"], <<>>}

\* the wallets of the send flow hold a few tokens of the two verified symbols
SendBalances ==
    {b \in WalletBalances : /\ DOMAIN b \subseteq {"MON", "USDC"}
                            /\ \A symbol \in DOMAIN b : b[symbol] \in SmallBalances}

\* the send flow approves nothing: the transfer is accepted by the node or not
SendFlowEnvs == {env \in BotEnvs : env.approve_send_ok}

NextSend ==
    \E u \in Users :
        \/ button_menu(u)
        \/ \E symbol \in Symbols, balances \in SendBalances :
              handle_send_select_token(u, symbol, balances)
        \/ \E text \in RecipientTexts : handle_send_address_input(u, text)
        \/ \E text \in SendAmountTexts, env \in SendFlowEnvs :
              handle_send_amount_input(u, text, env)
        \/ cancel_send(u)

SpecSend == InitTrading /\ [][NextSend]_vars

(***************************************************************************)
(* The event loop and its tasks (specification SpecLoop)                   *)
(***************************************************************************)
MaxQueue == 2
MaxSteps == 3

\* calls that return only when the operation is over: time.sleep(3) after an
\* approval in sell_token, subprocess.run of a helper in
\* get_wallet_all_tokens, a call of the chain through Web3.HTTPProvider.
\* The handlers are coroutines that call them directly.
SyncOps == {"time_sleep", "subprocess_run", "rpc_call"}

\* "await asyncio.sleep(60)" before the shown private key is deleted
AwaitedOps == {"asyncio_sleep"}

BlockingOps == SyncOps \cup AwaitedOps

\* run_polling runs every task on the one thread of the event loop: a task
\* takes a step only when the task that ran before it has reached an await
Runnable == event_loop.thread = "free"

\* the updater receives an inbound update and queues it
LoopPoll ==
    /\ Runnable
    /\ event_loop.queue < MaxQueue
    /\ event_loop' = [event_loop EXCEPT !.queue = @ + 1]
    /\ UNCHANGED <<dbVars, chainVars, botVars, token_snapshots, monitor_call, monitor_loop, waterfall, verified_call, cipher_call, send_call, shown, account, portfolio_call, price_cache, now>>

\* the application takes the next update once the handler of the one before
\* has returned (the builder sets no concurrent_updates), and the handler
\* runs into its operation: a synchronous call keeps the thread, an awaited
\* sleep gives it back
LoopHandle(op) ==
    /\ Runnable
    /\ event_loop.op = "none"
    /\ event_loop.queue > 0
    /\ event_loop' = [event_loop EXCEPT !.queue = @ - 1, !.op = op,
                                       !.thread = IF op \in SyncOps THEN "handler" ELSE "free"]
    /\ UNCHANGED <<dbVars, chainVars, botVars, token_snapshots, monitor_call, monitor_loop, waterfall, verified_call, cipher_call, send_call, shown, account, portfolio_call, price_cache, now>>

\* the operation is over and the handler runs to its return
LoopReturn ==
    /\ event_loop.op # "none"
    /\ event_loop.thread = "handler" \/ (event_loop.op \in AwaitedOps /\ Runnable)
    /\ event_loop' = [event_loop EXCEPT !.op = "none", !.thread = "free",
                                       !.handled = (@ + 1) % (MaxSteps + 1)]
    /\ UNCHANGED <<dbVars, chainVars, botVars, token_snapshots, monitor_call, monitor_loop, waterfall, verified_call, cipher_call, send_call, shown, account, portfolio_call, price_cache, now>>

\* the notification monitor, a task of the same loop, takes a step
LoopMonitor ==
    /\ Runnable
    /\ event_loop' = [event_loop EXCEPT !.monitor_steps = (@ + 1) % (MaxSteps + 1)]
    /\ UNCHANGED <<dbVars, chainVars, botVars, token_snapshots, monitor_call, monitor_loop, waterfall, verified_call, cipher_call, send_call, shown, account, portfolio_call, price_cache, now>>

NextLoop ==
    \/ LoopPoll
    \/ \E op \in BlockingOps : LoopHandle(op)
    \/ LoopReturn
    \/ LoopMonitor

SpecLoop == InitFresh /\ [][NextLoop]_vars

(***************************************************************************)
(* Nonces of a wallet's submissions (specification SpecNonce)              *)
(***************************************************************************)
MaxPending == 3

\* a transaction count that includes the transactions not yet mined
get_transaction_count_pending(acct) == acct.mined + Len(acct.pending)

\* w3.eth.get_transaction_count(account.address): the count at the latest
\* block, the transactions that are submitted and not yet mined left out
get_transaction_count(acct) == acct.mined

\* the nonces of the wallet's transactions that wait to be mined
PendingNonces(acct) == {acct.pending[i].nonce : i \in DOMAIN acct.pending}

\* build_transaction with the nonce just read, sign_transaction and
\* send_raw_transaction; seen keeps the nonces that were pending at the read
SubmitTx(acct, tx) ==
    [acct EXCEPT !.pending = Append(@, [kind |-> tx.kind, amount |-> tx.amount,
                                        nonce |-> get_transaction_count(acct),
                                        seen |-> PendingNonces(acct)])]

\* the chain includes the pending transaction i: it must carry the account's
\* next nonce, and the pending transactions of that nonce leave the pool
MineTx(acct, i) ==
    IF acct.pending[i].nonce # acct.mined THEN acct
    ELSE [mined |-> acct.mined + 1,
          pending |-> SelectSeq(acct.pending, LAMBDA tx : tx.nonce > acct.mined)]

\* the account after the transactions of one call of buy_token or sell_token:
\* an approval is submitted first and is mined, or not, during the wait
SubmitAll(acct, txs, approve_mined) ==
    IF txs = <<>> THEN acct
    ELSE LET a1 == SubmitTx(acct, txs[1])
             a2 == IF txs[1].kind = "approve" /\ approve_mined
                   THEN MineTx(a1, Len(a1.pending)) ELSE a1
         IN IF Len(txs) = 1 THEN a2 ELSE SubmitTx(a2, txs[2])

\* a handler calls buy_token and returns without waiting for the receipt
SubmitBuy ==
    \E amount \in 1..MaxAmount, pk \in TradeKeys, gas_mode \in {"normal"}, env \in SwapEnvs :
        LET r == buy_token(allowance, chain_txs, amount, pk, 10, gas_mode, env)
        IN /\ pk = BadKey => AllOk(env)
           /\ Len(chain_txs) + 1 <= MaxPending
           /\ chain_txs' = chain_txs \o r.txs
           /\ allowance' = r.allowance
           /\ account' = SubmitAll(account, r.txs, env.approve_mined)
           /\ trade_call' = TradeCall("buy_token", amount, pk, env, r.tx_hash, None, r)
           /\ UNCHANGED <<dbVars, botVars, quote_call, token_snapshots, monitor_call, monitor_loop, waterfall, verified_call, cipher_call, send_call, shown, event_loop, portfolio_call, price_cache, now>>

\* a handler calls sell_token and returns without waiting for the receipt
SubmitSell ==
    \E amount \in 1..MaxAmount, pk \in TradeKeys, gas_mode \in {"normal"}, env \in SellEnvs :
        LET r == sell_token(allowance, chain_txs, amount, pk, 10, gas_mode, env)
            ap == approve_token(allowance, chain_txs,
                                amount * Pow10(env.decimals) * 2, pk, gas_mode, env)
        IN /\ pk = BadKey => AllOk(env)
           /\ Len(chain_txs) + 2 <= MaxPending
           /\ chain_txs' = chain_txs \o r.txs
           /\ allowance' = r.allowance
           /\ account' = SubmitAll(account, r.txs, env.approve_mined)
           /\ trade_call' = TradeCall("sell_token", amount * Pow10(env.decimals),
                                      pk, env, r.tx_hash,
                                      IF env.info_ok THEN ap.ret ELSE None, r)
           /\ UNCHANGED <<dbVars, botVars, quote_call, token_snapshots, monitor_call, monitor_loop, waterfall, verified_call, cipher_call, send_call, shown, event_loop, portfolio_call, price_cache, now>>

\* the chain mines one of the wallet's pending transactions; an approval
\* that is mined after its call sets the allowance
ChainMines ==
    \E i \in DOMAIN account.pending :
        /\ account.pending[i].nonce = account.mined
        /\ account' = MineTx(account, i)
        /\ allowance' = IF account.pending[i].kind = "approve"
                        THEN account.pending[i].amount ELSE allowance
        /\ UNCHANGED <<dbVars, botVars, chain_txs, trade_call, quote_call, token_snapshots, monitor_call, monitor_loop, waterfall, verified_call, cipher_call, send_call, shown, event_loop, portfolio_call, price_cache, now>>

NextNonce ==
    \/ SubmitBuy
    \/ SubmitSell
    \/ ChainMines

SpecNonce == InitFresh /\ [][NextNonce]_vars

(***************************************************************************)
(* The portfolio rendering (specification SpecPortfolio)                   *)
(***************************************************************************)
MaxHoldings == 5

\* balances of the holdings, in whole tokens
HoldingBalances == {5, 10, 800, 900, 1000}

\* the token list of get_wallet_overview: balances above zero, sorted by
\* balance in descending order
Overviews ==
    {b \in UNION {[1..n -> HoldingBalances] : n \in 0..MaxHoldings} :
        \A i \in 1..(Len(b) - 1) : b[i] >= b[i + 1]}

\* render_portfolio(overview, include_prices=True, max_tokens=25)
max_tokens == 25

\* an overview of one holding more than is displayed
LongOverviews == {[i \in 1..(max_tokens + 1) |-> 5]}

\* the holdings with a value: any of a short overview, any of the first two
\* and the last two of a long one
PricedSets(balances) ==
    IF Len(balances) <= MaxHoldings THEN SUBSET DOMAIN balances
    ELSE SUBSET {1, 2, Len(balances) - 1, Len(balances)}

\* the numbers of the rendering carry their Python type: the balances of
\* get_wallet_all_tokens are Decimal, float(...) and sums of floats are float
Decimal(n) == [type |-> "Decimal", value |-> n]
Float(n) == [type |-> "float", value |-> n]

\* float(x)
float(x) == Float(x.value)

\* x / y: a Decimal and a float do not divide (TypeError); otherwise the
\* quotient, kept as numerator and denominator
truediv(x, y) ==
    IF x.type # y.type THEN [type |-> "TypeError", num |-> 0, den |-> 1]
    ELSE [type |-> x.type, num |-> x.value, den |-> y.value]

\* the tokens of an overview: the holdings in priced have a value (at a
\* price of 1), the value_usd of the others is None (0 here)
Tokens(balances, priced) ==
    [i \in DOMAIN balances |->
        [balance |-> Decimal(balances[i]),
         value_usd |-> IF i \in priced THEN Float(balances[i]) ELSE Float(0)]]

\* tokens[:max_tokens]
tokens_to_display(tokens) ==
    IF Len(tokens) > max_tokens THEN SubSeq(tokens, 1, max_tokens) ELSE tokens

\* a basis by value as soon as one holding has a value
value_basis_any(count, total) == count >= 1 /\ total > 0

\* use_price_allocation = len(tokens_with_price) >= 3 and total_value_usd > 0
value_basis(count, total) == count >= 3 /\ total > 0

RECURSIVE SumValues(_, _)
SumValues(f, S) ==
    IF S = {} THEN 0
    ELSE LET i == CHOOSE j \in S : TRUE IN f[i] + SumValues(f, S \ {i})

\* sorted(tokens_to_display, key=balance, reverse=True)[3]: the balance that
\* fewer than four holdings exceed and at least four reach
FourthLargest(tokens) ==
    LET bal(i) == float(tokens[i].balance).value
    IN CHOOSE v \in {bal(i) : i \in DOMAIN tokens} :
          /\ Cardinality({i \in DOMAIN tokens : bal(i) > v}) < 4
          /\ Cardinality({i \in DOMAIN tokens : bal(i) >= v}) >= 4

\* an outlier detection that keeps its exclusion whatever remains
exclusion_kept(all, over) == FALSE

\* "if len(filtered_tokens) < 3": the exclusion is abandoned
exclusion_abandoned(all, over) == Cardinality(all \ over) < 3

\* render_portfolio, the allocation part: the basis, the outliers, the
\* denominator and the percentage of every displayed token, or the exception
\* that leaves the function
render_portfolio(overview) ==
    LET tokens == tokens_to_display(overview)
        all == DOMAIN tokens
        tokens_with_price == {i \in all : tokens[i].value_usd.value # 0}
        total_value_usd == SumValues([i \in all |-> tokens[i].value_usd.value], tokens_with_price)
        use_price_allocation == value_basis(Cardinality(tokens_with_price), total_value_usd)
        outlier_threshold == IF Len(tokens) >= 4 THEN FourthLargest(tokens) * 10 ELSE 0
        over == IF Len(tokens) >= 4
                THEN {i \in all : float(tokens[i].balance).value > outlier_threshold}
                ELSE {}
        abandoned == exclusion_abandoned(all, over)
        outlier_tokens == IF use_price_allocation \/ abandoned THEN {} ELSE over
        tokens_for_calc == IF use_price_allocation THEN tokens_with_price ELSE all \ outlier_tokens
        total_count == Float(SumValues([i \in all |-> float(tokens[i].balance).value], tokens_for_calc))
        pct(i) ==
            IF use_price_allocation /\ tokens[i].value_usd.value # 0
            THEN truediv(tokens[i].value_usd, Float(total_value_usd))
            ELSE IF i \notin outlier_tokens /\ ~use_price_allocation
            THEN IF total_count.value > 0 THEN truediv(tokens[i].balance, total_count)
                 ELSE Float(0)
            ELSE Float(0)
        failed == \E i \in all : pct(i).type = "TypeError"
    IN [raised |-> IF failed THEN "TypeError" ELSE "none",
        allocation_mode |-> IF tokens = <<>> THEN "none"
                            ELSE IF use_price_allocation THEN "value" ELSE "quantity",
        outlier_tokens |-> outlier_tokens,
        tokens_for_calc |-> tokens_for_calc,
        base |-> IF use_price_allocation THEN total_value_usd ELSE total_count.value,
        pct |-> IF failed THEN <<>> ELSE [i \in all |-> pct(i)]]

CallRenderPortfolio ==
    \E balances \in Overviews \cup LongOverviews :
      \E priced \in PricedSets(balances) :
        /\ ~portfolio_call.called
        /\ portfolio_call' = [called |-> TRUE, balances |-> balances, priced |-> priced,
                              result |-> render_portfolio(Tokens(balances, priced))]
        /\ UNCHANGED <<dbVars, chainVars, botVars, token_snapshots, monitor_call, monitor_loop, waterfall, verified_call, cipher_call, send_call, shown, event_loop, account, price_cache, now>>

NextPortfolio == CallRenderPortfolio

SpecPortfolio == InitFresh /\ [][NextPortfolio]_vars

(***************************************************************************)
(* The wallet overview and the price cache                                 *)
(***************************************************************************)
CACHE_DURATION_SECONDS == 300
fetch_prices_for_top == 25
MaxBalance == 2

\* get_cached_price: the cached price while the clock is before the expiry,
\* None (0 here) otherwise
get_cached_price(cache, token_address, t) ==
    IF cache[token_address] # NoRow /\ t < cache[token_address].expiry
    THEN cache[token_address].price ELSE 0

\* a cache whose entries never expire
cache_price_forever(cache, token_address, price, t) ==
    [cache EXCEPT ![token_address] = [price |-> price, expiry |-> t + CACHE_DURATION_SECONDS * 3]]

\* cache_price
cache_price(cache, token_address, price, t) ==
    [cache EXCEPT ![token_address] = [price |-> price, expiry |-> t + CACHE_DURATION_SECONDS]]

\* a sort that leaves the list as it is
sort_reverse_not(seq, key) == seq

\* list.sort(key, reverse=True): by key in descending order, holdings of one
\* key in the order they had
sort_reverse(seq, key) ==
    LET rank(i) == 1 + Cardinality({j \in DOMAIN seq :
                         key[j] > key[i] \/ (key[j] = key[i] /\ j < i)})
    IN [p \in DOMAIN seq |-> seq[CHOOSE i \in DOMAIN seq : rank(i) = p]]

\* seq[:n]
Take(seq, n) == SubSeq(seq, 1, IF n < Len(seq) THEN (IF n < 0 THEN 0 ELSE n) ELSE Len(seq))

MON_DERIVATIVES == {"WMON"}
NativeSymbolsOfOverview == {"MON", "MONAD"}

\* 'LP' in symbol.upper() or 'POOL' in symbol.upper()
IsLpSymbol(symbol) == symbol \in {"AAA-LP"}

\* the MON price of this call: the cached one, the helper's if it is above 0
\* and below 100, else the on-chain one if it is above 0; 1 without any
MonPrice(cache, env, t) ==
    LET cached == get_cached_price(cache, "MON", t)
    IN IF cached # 0 THEN [price |-> cached, cache |-> cache]
       ELSE IF env.mon_helper > 0 /\ env.mon_helper < 100
       THEN [price |-> env.mon_helper, cache |-> cache_price(cache, "MON", env.mon_helper, t)]
       ELSE IF env.mon_onchain > 0
       THEN [price |-> env.mon_onchain, cache |-> cache_price(cache, "MON", env.mon_onchain, t)]
       ELSE [price |-> 1, cache |-> cache]

\* a helper quote above 1000 goes into the holding and the cache as it is
VettedPrice_unchecked(helper, onchain) == helper

\* the price of a holding that is not cached: the helper's quote when it is
\* above 0; a quote above 1000 gives way to the on-chain quote, which counts
\* only above 0 and below 1000; 0 stands for "no price"
VettedPrice(helper, onchain) ==
    IF helper <= 0 THEN 0
    ELSE IF helper > 1000
    THEN IF onchain > 0 /\ onchain < 1000 THEN onchain ELSE 0
    ELSE helper

\* the loop over tokens_to_price, one holding: [token, cache]
PriceToken(token, cache, mon_price, env, t) ==
    IF IsLpSymbol(token.symbol) \/ token.address = "" THEN [token |-> token, cache |-> cache]
    ELSE IF token.symbol \in MON_DERIVATIVES
    THEN [token |-> [token EXCEPT !.price_usd = mon_price, !.value_usd = token.balance * mon_price],
          cache |-> cache]
    ELSE LET cached == get_cached_price(cache, token.address, t)
             price == VettedPrice(env.helper, env.onchain)
         IN IF cached # 0
            THEN [token |-> [token EXCEPT !.price_usd = cached, !.value_usd = token.balance * cached],
                  cache |-> cache]
            ELSE IF price # 0
            THEN [token |-> [token EXCEPT !.price_usd = price, !.value_usd = token.balance * price],
                  cache |-> cache_price(cache, token.address, price, t)]
            ELSE [token |-> token, cache |-> cache]

\* body(v), with v worked out once
With(v, body(_)) == CHOOSE y \in {body(x) : x \in {v}} : TRUE

RECURSIVE PriceTokens(_, _, _, _, _, _)
\* "for token in tokens_to_price": the first n holdings are priced in turn
PriceTokens(tokens, n, cache, mon_price, env, t) ==
    IF n = 0 THEN [tokens |-> tokens, cache |-> cache]
    ELSE With(PriceTokens(tokens, n - 1, cache, mon_price, env, t), LAMBDA before :
         With(PriceToken(before.tokens[n], before.cache, mon_price, env, t), LAMBDA one :
              [tokens |-> [before.tokens EXCEPT ![n] = one.token], cache |-> one.cache]))

\* the list of holdings as get_wallet_overview builds it: the holdings that
\* are not native and have a balance above 0, sorted by the key
\* (not verified, -balance)
BuiltTokens(all_tokens) ==
    With(SelectSeq(all_tokens, LAMBDA d : d.symbol \notin NativeSymbolsOfOverview /\ d.balance > 0), LAMBDA listed :
    With([i \in DOMAIN listed |->
            [symbol |-> listed[i].symbol, balance |-> listed[i].balance,
             address |-> listed[i].address, verified |-> listed[i].verified,
             price_usd |-> 0, value_usd |-> 0]], LAMBDA built :
         sort_reverse(built, [i \in DOMAIN built |->
                         (IF built[i].verified THEN MaxBalance + 2 ELSE 0) + built[i].balance])))

\* tokens_to_price: the verified holdings first, then the unverified ones,
\* fetch_prices_for_top at most
TokensToPrice(tokens) ==
    With(Take(SelectSeq(tokens, LAMBDA tk : tk.verified), fetch_prices_for_top), LAMBDA first :
         first \o Take(SelectSeq(tokens, LAMBDA tk : ~tk.verified), fetch_prices_for_top - Len(first)))

\* the holdings of tokens_to_price are the dicts of tokens: a holding that
\* was priced is priced in tokens too
PricedInPlace(tokens, priced) ==
    [i \in DOMAIN tokens |->
        IF \E j \in DOMAIN priced : priced[j].symbol = tokens[i].symbol
        THEN priced[CHOOSE j \in DOMAIN priced : priced[j].symbol = tokens[i].symbol]
        ELSE tokens[i]]

\* the order by value: the valued holdings by value_usd, the others behind
SortedByValue(tokens) ==
    With(SelectSeq(tokens, LAMBDA tk : tk.value_usd # 0), LAMBDA tokens_with_value :
         IF tokens_with_value # <<>>
         THEN sort_reverse(tokens_with_value,
                           [i \in DOMAIN tokens_with_value |-> tokens_with_value[i].value_usd])
              \o SelectSeq(tokens, LAMBDA tk : tk.value_usd = 0)
         ELSE tokens)

\* get_wallet_overview: all_tokens is the dict of get_wallet_all_tokens, the
\* holdings of the history merged in, in its order; the result is the list
\* of holdings (by_value: as it is before the last sort), total_positions and
\* the price cache the call leaves
get_wallet_overview(all_tokens, cache, env, t) ==
    With(BuiltTokens(all_tokens), LAMBDA by_verified :
    With(MonPrice(cache, env, t), LAMBDA mon :
    With(TokensToPrice(by_verified), LAMBDA tokens_to_price :
    With(PriceTokens(tokens_to_price, Len(tokens_to_price), mon.cache, mon.price, env, t), LAMBDA priced :
    With(SortedByValue(PricedInPlace(by_verified, priced.tokens)), LAMBDA by_value :
    With(sort_reverse(by_value, [i \in DOMAIN by_value |-> by_value[i].balance]), LAMBDA tokens :
         [tokens |-> tokens, by_value |-> by_value, total_positions |-> 1 + Len(tokens),
          cache |-> priced.cache]))))))

\* the answers of the price helper and of the on-chain quote for the plain
\* token and for WMON
PriceEnvs ==
    [helper : {0, 5, 1000, 1001}, onchain : {0, 5, 1000},
     mon_helper : {0, 2}, mon_onchain : {0, 3}]

\* the dict of get_wallet_all_tokens: the native balance, a MON derivative, a
\* plain token and a pool token
AllTokens(b_wmon, b_aaa, b_lp, verified) ==
    << [symbol |-> "MON", balance |-> 1, address |-> "", verified |-> TRUE],
       [symbol |-> "WMON", balance |-> b_wmon, address |-> "0xWmon", verified |-> FALSE],
       [symbol |-> "AAA", balance |-> b_aaa, address |-> "0xToken", verified |-> verified],
       [symbol |-> "AAA-LP", balance |-> b_lp, address |-> "0xPool", verified |-> FALSE] >>

OverviewCall(all_tokens, env) ==
    \E r \in {get_wallet_overview(all_tokens, price_cache, env, now)} :
       /\ portfolio_call' = [called |-> TRUE, fn |-> "get_wallet_overview",
                             again |-> portfolio_call.called,
                             all_tokens |-> all_tokens, env |-> env, at |-> now,
                             cache_before |-> price_cache, result |-> r]
       /\ price_cache' = r.cache
       /\ UNCHANGED <<dbVars, chainVars, botVars, token_snapshots, monitor_call, monitor_loop, waterfall, verified_call, cipher_call, send_call, shown, event_loop, account, now>>

\* one call of get_wallet_overview with a cache that is still empty
CallGetWalletOverview ==
    \E b_wmon \in 0..MaxBalance, b_aaa \in 0..MaxBalance, b_lp \in 0..MaxBalance,
       verified \in BOOLEAN, env \in PriceEnvs :
        /\ ~portfolio_call.called
        /\ OverviewCall(AllTokens(b_wmon, b_aaa, b_lp, verified), env)

\* the moments the clock is read at
Times == {0, 1, 299, 300, 301, 599, 600, 601}

\* datetime.now() moves on
Tick ==
    /\ \E t \in Times : t > now /\ now' = t
    /\ UNCHANGED <<dbVars, chainVars, botVars, token_snapshots, monitor_call, monitor_loop, waterfall, verified_call, cipher_call, send_call, shown, event_loop, account, portfolio_call, price_cache>>

\* the portfolio of one wallet opened a second time: the cache is the one
\* the first call left
OneOfEach == AllTokens(1, 1, 1, TRUE)

OpenedOnce ==
    /\ portfolio_call.called /\ portfolio_call.fn = "get_wallet_overview"
    /\ ~portfolio_call.again /\ portfolio_call.all_tokens = OneOfEach

TickOverview == OpenedOnce /\ Tick

CallGetWalletOverviewAgain ==
    \E env \in PriceEnvs : OpenedOnce /\ OverviewCall(OneOfEach, env)

NextOverview == CallGetWalletOverview \/ TickOverview \/ CallGetWalletOverviewAgain

SpecOverview == InitFresh /\ [][NextOverview]_vars

(***************************************************************************)
(* The monitor beside the conversation (specification SpecWatch): checks   *)
(* of a user's wallet, any of whose calls may raise, in any order with the *)
(* handlers that replace the wallet. monitor_call remembers the wallet the *)
(* check looked at and, in prev, the check before it.                      *)
(***************************************************************************)
\* the wallets hold the native token, and a verified token or not
WatchBalances ==
    {b \in WalletBalances : "MON" \in DOMAIN b /\ DOMAIN b \subseteq {"MON", "USDC"} /\ \A symbol \in DOMAIN b : b[symbol] \in {<<1>>, <<2>>}}

\* the calls that can raise once the holdings are known and compared
WatchFailures == {"none", "update_token_snapshot", "send_message"}

\* what is remembered of the check before
Summary(call) ==
    [user |-> call.user, outcome |-> call.outcome, current_tokens |-> call.current_tokens,
     queued |-> Len(call.new_tokens), sent |-> Len(call.messages),
     wallet |-> IF "wallet" \in DOMAIN call THEN call.wallet ELSE None]

\* monitor_tokens: check_user_for_new_tokens(bot, user, user.wallet_address)
\* for a user with notifications enabled
WatchCheck ==
    \E u \in get_users_with_notifications, balances \in WatchBalances, fail \in WatchFailures :
        LET current_tokens == get_wallet_all_tokens(balances)
            r == check_user_guarded(token_snapshots, u, current_tokens, fail)
        IN /\ token_snapshots' = r.snapshots
           /\ monitor_call' = MonitorCall(u, current_tokens, r)
                                  @@ [wallet |-> users[u].wallet_address, prev |-> Summary(monitor_call)]
           /\ UNCHANGED <<dbVars, chainVars, botVars, monitor_loop, waterfall, verified_call, cipher_call, send_call, shown, event_loop, account, portfolio_call, price_cache, now>>

NextWatch ==
    \/ WatchCheck
    \/ \E u \in Users :
          \/ button_create_new_wallet(u)
          \/ button_confirm_new_wallet(u)
          \/ button_import_wallet(u)
          \/ \E text \in {KeyARaw} : handle_private_key_import(u, text)
          \/ button_import_mode_quick(u)

SpecWatch == InitMonitoring /\ [][NextWatch]_vars

(***************************************************************************)
(* The bar of a holding (specification SpecBar): ascii_bar is called with   *)
(* a share pct = num / den and a width.                                     *)
(***************************************************************************)
MaxWidth == 16

FilledCell == "filled"
EmptyCell == "empty"

\* int(a / b) for b > 0: the fraction is cut off towards 0
int(a, b) == IF a >= 0 THEN a \div b ELSE 0 - ((0 - a) \div b)

\* cell * n: no cell when n is below 1
Repeat(cell, n) == [i \in 1..n |-> cell]

\* the bar of a share that is not clamped
ascii_bar_unclamped(num, den, width) ==
    LET fill == int(2 * num * width + den, 2 * den)
    IN Repeat(FilledCell, fill) \o Repeat(EmptyCell, width - fill)

\* ascii_bar(pct, width) with pct = num / den: pct is clamped to 0..1,
\* fill = int(pct * width + 0.5)
ascii_bar(num, den, width) ==
    LET pct == IF num < 0 THEN 0 ELSE IF num > den THEN den ELSE num
        fill == int(2 * pct * width + den, 2 * den)
    IN Repeat(FilledCell, fill) \o Repeat(EmptyCell, width - fill)

\* the shares: halves, quarters, fifths and tenths from -0.2 to 1.3 and more
BarDens == {2, 4, 5, 10}
BarNums == (0 - 2)..13

CallAsciiBar ==
    \E num \in BarNums, den \in BarDens, width \in 0..MaxWidth :
        /\ ~portfolio_call.called
        /\ portfolio_call' = [called |-> TRUE, fn |-> "ascii_bar", num |-> num, den |-> den,
                              width |-> width, result |-> ascii_bar(num, den, width)]
        /\ UNCHANGED <<dbVars, chainVars, botVars, token_snapshots, monitor_call, monitor_loop, waterfall, verified_call, cipher_call, send_call, shown, event_loop, account, price_cache, now>>

NextBar == CallAsciiBar

SpecBar == InitFresh /\ [][NextBar]_vars

(***************************************************************************)
(* The price cache (specification SpecCache): prices are cached and looked  *)
(* up while the clock moves on. portfolio_call is the last call; its field  *)
(* puts remembers for every key the last cache_price and its moment.        *)
(***************************************************************************)
CachedPrices == {5, 7}

NoPuts == [k \in CacheKeys |-> NoRow]

PutsSoFar == IF portfolio_call.called THEN portfolio_call.puts ELSE NoPuts

CacheFrame == UNCHANGED <<dbVars, chainVars, botVars, token_snapshots, monitor_call, monitor_loop, waterfall, verified_call, cipher_call, send_call, shown, event_loop, account, now>>

CallCachePrice ==
    \E k \in CacheKeys, p \in CachedPrices :
        /\ price_cache' = cache_price(price_cache, k, p, now)
        /\ portfolio_call' = [called |-> TRUE, fn |-> "cache_price", key |-> k, at |-> now,
                              cache_before |-> price_cache, result |-> 0,
                              puts |-> [PutsSoFar EXCEPT ![k] = [price |-> p, at |-> now]]]
        /\ CacheFrame

CallGetCachedPrice ==
    \E k \in CacheKeys :
        /\ portfolio_call' = [called |-> TRUE, fn |-> "get_cached_price", key |-> k, at |-> now,
                              cache_before |-> price_cache,
                              result |-> get_cached_price(price_cache, k, now),
                              puts |-> PutsSoFar]
        /\ UNCHANGED price_cache
        /\ CacheFrame

NextCache == CallCachePrice \/ CallGetCachedPrice \/ Tick

SpecCache == InitFresh /\ [][NextCache]_vars

(***************************************************************************)
(* The monitor's loop (specification SpecCycle)                            *)
(***************************************************************************)
\* the users the loop goes through, and the lists the users query can give
MonitoredUsers == {"u1", "u2"}
UserLists == {<<>>, <<"u2">>, <<"u1", "u2">>}

\* the wallets of the loop hold the native token or nothing
CycleBalances == {b \in WalletBalances : DOMAIN b \subseteq {"MON"}}

InitCycle ==
    /\ InitDb
    /\ InitChain
    /\ InitBot
    /\ token_snapshots = [u \in MonitoredUsers |-> NoTokens]
    /\ monitor_call = NoMonitorCall
    /\ monitor_loop = LoopStart
    /\ waterfall = NoWaterfall
    /\ verified_call = NoVerifiedCall
    /\ cipher_call = NoCipherCall
    /\ send_call = NoSendCall
    /\ shown = [u \in Users |-> NoContent]
    /\ event_loop = LoopIdle
    /\ account = NoAccount
    /\ portfolio_call = NoPortfolioCall
    /\ price_cache = EmptyCache
    /\ now = 0

\* monitor_tokens: the users query at the head of a cycle
MonitorFetchUsers ==
    /\ monitor_loop.pc = "fetch"
    /\ \E rows \in UserLists, ok \in BOOLEAN :
          monitor_loop' = monitor_fetch(monitor_loop, rows, ok)
    /\ UNCHANGED <<dbVars, chainVars, botVars, token_snapshots, monitor_call, waterfall, verified_call, cipher_call, send_call, shown, event_loop, account, portfolio_call, price_cache, now>>

\* monitor_tokens: the check of the next user of the cycle
MonitorCheckNext ==
    /\ monitor_loop.pc = "check"
    /\ \E balances \in CycleBalances, fail \in CheckFailures :
          LET u == monitor_loop.users[monitor_loop.next]
              current_tokens == get_wallet_all_tokens(balances)
              r == check_user_guarded(token_snapshots, u, current_tokens, fail)
          IN /\ token_snapshots' = r.snapshots
             /\ monitor_call' = MonitorCall(u, current_tokens, r)
             /\ monitor_loop' = monitor_checked(monitor_loop, r.outcome)
    /\ UNCHANGED <<dbVars, chainVars, botVars, waterfall, verified_call, cipher_call, send_call, shown, event_loop, account, portfolio_call, price_cache, now>>

\* monitor_tokens: the wait between two cycles has passed
MonitorSleep ==
    /\ monitor_loop.pc = "sleep"
    /\ monitor_loop' = monitor_slept(monitor_loop)
    /\ UNCHANGED <<dbVars, chainVars, botVars, token_snapshots, monitor_call, waterfall, verified_call, cipher_call, send_call, shown, event_loop, account, portfolio_call, price_cache, now>>

NextCycle == MonitorFetchUsers \/ MonitorCheckNext \/ MonitorSleep

\* the event loop resumes the monitor's task whenever its wait is over
SpecCycle == InitCycle /\ [][NextCycle]_vars /\ WF_vars(NextCycle)

(***************************************************************************)
(* Claims about the settings menu (checked under SpecSettings)             *)
(***************************************************************************)
\* C5: after any sequence of settings-menu actions the stored gas tier is one
\* of normal, fast, very_fast, and it is the tier named by the gas button
\* pressed last.
C5_GasTierStored ==
    \A u \in Users :
        user_settings[u] # NoRow =>
            /\ user_settings[u].gas_price_mode \in GasModes
            /\ last_gas[u] # None => user_settings[u].gas_price_mode = last_gas[u]

(***************************************************************************)
(* Claims about trading through the bot (checked under Spec)               *)
(***************************************************************************)
Salted(u) == users[u] # NoRow /\ Truthy(users[u].passphrase_salt)

\* the handlers that take a buy amount, past their validation of the amount
\* and of the pending token
BuyAmountHandlers ==
    {"handle_buy_amount", "handle_buy_amount:secure", "handle_buy_custom_amount_input"}

\* C1: for a user whose wallet has a passphrase salt, every buy path (the
\* quick buy_<amount> buttons and the custom amount typed after buy_custom)
\* enters AwaitingTransactionPassphrase to collect the passphrase: the amount
\* handler neither fails nor ends the conversation.
C1_BuyEntersPassphraseState ==
    \A u \in Users :
        (/\ Salted(u)
         /\ last_update.user = u
         /\ last_update.handler \in BuyAmountHandlers) =>
            /\ last_update.raised = "none"
            /\ conv[u] = "AwaitingTransactionPassphrase"

\* C2: after /cancel the conversation is Idle and no pending context is left:
\* neither the user_context entry nor a pending_buy or pending_sell of the
\* session.
C2_CancelLeavesNothingPending ==
    \A u \in Users :
        (last_update.user = u /\ last_update.handler = "cancel") =>
            /\ conv[u] = END
            /\ user_context[u] = NoRow
            /\ user_data[u].pending_buy = NoRow
            /\ user_data[u].pending_sell = NoRow

\* the positions of the submitted swaps in the chain's log
Swaps ==
    {i \in 1..Len(chain_txs) :
        chain_txs[i].kind \in {"swapExactETHForTokens", "swapExactTokensForETH"}}

\* C6: every submitted buy or sell has appended exactly one token_history
\* row, in every flow, and a failed trade none: the history has exactly one
\* row for each submitted swap and no other row.
C6_HistoryRowPerTrade ==
    /\ Len(token_history) = Cardinality(Swaps)
    /\ \A i \in Swaps :
          Cardinality({j \in 1..Len(token_history) :
                          token_history[j].tx_hash = TxHash(i)}) = 1

\* the outcomes of handle_transaction_passphrase: a submission (successful or
\* failed), an unknown user, no pending transaction, a passphrase the
\* decryption refused
PassphraseOutcomes ==
    {"handle_transaction_passphrase", "handle_transaction_passphrase:no_user",
     "handle_transaction_passphrase:no_pending"}
        \cup {"handle_transaction_passphrase:" \o e :
                 e \in {"ValueError: Incorrect passphrase",
                        "ValueError: Passphrase required"}}

\* C12: a text entered in AwaitingTransactionPassphrase is consumed once:
\* whatever the outcome (successful submission, failed submission, wrong
\* passphrase, no pending transaction, unknown user) the handler does not
\* raise, the conversation is Idle after it, and the entry has submitted at
\* most one transaction.
C12_PassphraseConsumedOnce ==
    [][\A u \in Users :
          (/\ conv[u] = "AwaitingTransactionPassphrase"
           /\ last_update'.user = u
           /\ last_update'.handler \in PassphraseOutcomes) =>
              /\ last_update'.raised = "none"
              /\ conv'[u] = END
              /\ Len(chain_txs') <= Len(chain_txs) + 1]_vars

\* a passphrase entry has submitted the pending buy and the conversation is
\* Idle
C12_Witness ==
    \E u \in Users :
        /\ last_update.user = u
        /\ last_update.handler = "handle_transaction_passphrase"
        /\ last_update.trade = "ok"
        /\ conv[u] = END
        /\ Cardinality(Swaps) >= 1

\* C13: after an incorrect passphrase in AwaitingTransactionPassphrase no
\* transaction was submitted, the conversation is Idle and not back at the
\* prompt, and the pending buy is aborted: neither the session's pending_buy
\* nor the user_context entry is left.
C13_WrongPassphraseAbortsBuy ==
    \A u \in Users :
        (/\ last_update.user = u
         /\ last_update.handler =
               "handle_transaction_passphrase:ValueError: Incorrect passphrase") =>
            /\ last_update.trade = "none"
            /\ conv[u] = END
            /\ user_data[u].pending_buy = NoRow
            /\ user_context[u] = NoRow

\* the validation failures of the free-text inputs of the trading flows: a
\* malformed token address, an amount that is no number or not positive, a
\* custom sell amount above the balance
ValidationFailures ==
    {"handle_token_address:invalid", "handle_buy_custom_amount_input:invalid",
     "handle_sell_custom_amount_input:invalid",
     "handle_sell_custom_amount_input:balance"}

\* C15: every validation failure of a free-text input re-prompts and keeps
\* the conversation in the awaiting state it was in: it neither ends the
\* conversation nor submits a transaction.
C15_ValidationFailureKeepsState ==
    [][\A u \in Users :
          (last_update'.user = u /\ last_update'.handler \in ValidationFailures) =>
              /\ conv[u] \in AwaitingStates
              /\ conv'[u] = conv[u]
              /\ chain_txs' = chain_txs]_vars

(***************************************************************************)
(* Claims about the wallet import (checked under SpecImport)               *)
(***************************************************************************)
\* a step of handle_confirm_passphrase on the text a user sent
ConfirmStep(u, text) == \E salt \in Salts : handle_confirm_passphrase(u, text, salt)

\* the step has written the user's wallet
WalletStored(u) == users'[u] # users[u] \/ last_write'[u] # last_write[u]

\* the step has stored the wallet under the passphrase accepted before it
StoredUnderAccepted(u) ==
    /\ users'[u] # NoRow
    /\ users'[u].encrypted_private_key.svc = "passphrase"
    /\ users'[u].encrypted_private_key.pw = user_data[u].pending_passphrase
    /\ Truthy(users'[u].passphrase_salt)

\* the session still holds the imported key and its address
KeyPending(u) ==
    user_data[u].pending_private_key # EmptyKey /\ Truthy(user_data[u].pending_address)

\* the step has stored nothing and ended the conversation
SessionExpired(u) ==
    /\ UNCHANGED <<users, user_settings, last_write>>
    /\ conv'[u] = END

\* the step has stored nothing, discarded the first entry and returned to
\* AwaitingSetPassphrase
BackToSetPassphrase(u) ==
    /\ UNCHANGED <<users, user_settings, last_write>>
    /\ user_data'[u].pending_passphrase = None
    /\ conv'[u] = "AwaitingSetPassphrase"

\* C14, as the spec states it: the wallet is stored only when the text
\* entered in AwaitingConfirmPassphrase exactly equals the passphrase accepted
\* in AwaitingSetPassphrase; on a mismatch nothing is stored, the first entry
\* is discarded and the conversation returns to AwaitingSetPassphrase.
C14_StoredOnlyOnExactText ==
    [][\A u \in Users, text \in PassTexts :
          ConfirmStep(u, text) =>
              /\ WalletStored(u) =>
                    text = user_data[u].pending_passphrase /\ StoredUnderAccepted(u)
              /\ text # user_data[u].pending_passphrase => BackToSetPassphrase(u)]_vars

\* C14, amended: the wallet is stored (passphrase encryption, under the
\* accepted passphrase) only when the text entered in AwaitingConfirmPassphrase,
\* with its surrounding whitespace removed, equals the passphrase accepted in
\* AwaitingSetPassphrase; when it differs and the session still holds the
\* imported key, nothing is stored, the first entry is discarded and the
\* conversation returns to AwaitingSetPassphrase; when the session no longer
\* holds the imported key, nothing is stored and the conversation ends.
C14_StoredOnlyOnMatch ==
    [][\A u \in Users, text \in PassTexts :
          ConfirmStep(u, text) =>
              /\ WalletStored(u) =>
                    strip(text) = user_data[u].pending_passphrase
                        /\ StoredUnderAccepted(u)
              /\ (KeyPending(u) /\ strip(text) # user_data[u].pending_passphrase) =>
                    BackToSetPassphrase(u)
              /\ ~KeyPending(u) => SessionExpired(u)]_vars

\* the confirmation has stored a wallet under the passphrase
C14_Witness ==
    \E u \in Users :
        /\ last_update.user = u
        /\ last_update.handler = "handle_confirm_passphrase"
        /\ last_update.raised = "none"
        /\ users[u] # NoRow
        /\ users[u].encrypted_private_key.svc = "passphrase"
        /\ conv[u] = END

(***************************************************************************)
(* Claims about the notification monitor (checked under SpecMonitor)       *)
(***************************************************************************)
\* a check has run
Checked == monitor_call.user # "none"

\* what the last check saw, and what was persisted before it
Current == monitor_call.current_tokens
Prior == monitor_call.last_snapshot

\* the queued items, and the messages sent, for a symbol
QueuedOf(symbol) ==
    {i \in 1..Len(monitor_call.new_tokens) : monitor_call.new_tokens[i].symbol = symbol}
SentOf(symbol) ==
    {i \in 1..Len(monitor_call.messages) : monitor_call.messages[i].symbol = symbol}

\* the balance of the holding is strictly larger than the snapshot's
Increased(symbol) ==
    /\ symbol \in DOMAIN Current \cap DOMAIN Prior
    /\ ~LLeq(Current[symbol].balance, Prior[symbol].balance)

\* C16: on the first check of a user for whom no snapshot is persisted, no
\* notification is queued or sent whatever the (non-empty) holdings are, and
\* the holdings are persisted as the snapshot.
C16_FirstCheckSilent ==
    (Checked /\ DOMAIN Prior = {} /\ DOMAIN Current # {}) =>
        /\ monitor_call.new_tokens = <<>>
        /\ monitor_call.messages = <<>>
        /\ token_snapshots[monitor_call.user] = Current

\* a first check has seen the native entry and a verified token
C16_Witness ==
    /\ Checked
    /\ DOMAIN Prior = {}
    /\ {"MON", "USDC"} \subseteq DOMAIN Current
    /\ token_snapshots[monitor_call.user] = Current

\* C17: a holding whose verification flag is false, of a symbol other than
\* the native one, is never queued and no message is sent for it, whether it
\* is new or known with an increased balance.
C17_UnverifiedNeverNotified ==
    Checked =>
        \A symbol \in DOMAIN Current :
            (symbol \notin NativeSymbols /\ ~Current[symbol].verified) =>
                QueuedOf(symbol) = {} /\ SentOf(symbol) = {}

\* a check with a snapshot has seen an unverified token that is new or has
\* grown, while it sent a message for another holding
C17_Witness ==
    /\ Checked
    /\ DOMAIN Prior # {}
    /\ "SCAM" \in DOMAIN Current
    /\ ~Current["SCAM"].verified
    /\ "SCAM" \notin DOMAIN Prior \/ Increased("SCAM")
    /\ monitor_call.messages # <<>>

\* C18: a notification for the native entry is queued or sent only if the
\* entry was in the prior snapshot and its balance is strictly larger than
\* the snapshot's: a decrease, an unchanged balance and a first appearance
\* queue nothing.
C18_NativeOnlyOnIncrease ==
    Checked =>
        \A symbol \in NativeSymbols :
            (QueuedOf(symbol) # {} \/ SentOf(symbol) # {}) => Increased(symbol)

\* the native balance has grown and its message was sent
C18_Witness ==
    /\ Checked
    /\ Increased("MON")
    /\ SentOf("MON") # {}

\* C19: in a check with an existing snapshot, every verified non-native
\* holding absent from the snapshot with a positive balance queues exactly one
\* "new token" notification, every verified non-native holding of the
\* snapshot with a strictly larger balance queues exactly one "received more"
\* notification, and one message is sent per queued item.
C19_VerifiedNotifiedOnce ==
    (Checked /\ DOMAIN Prior # {}) =>
        /\ Len(monitor_call.messages) = Len(monitor_call.new_tokens)
        /\ \A symbol \in DOMAIN Current :
              (symbol \notin NativeSymbols /\ Current[symbol].verified) =>
                  /\ (symbol \notin DOMAIN Prior /\ Current[symbol].balance # <<>>) =>
                        /\ Cardinality(QueuedOf(symbol)) = 1
                        /\ \A i \in SentOf(symbol) :
                              monitor_call.messages[i].text = "New Token Received"
                  /\ Increased(symbol) =>
                        /\ Cardinality(QueuedOf(symbol)) = 1
                        /\ \A i \in SentOf(symbol) :
                              monitor_call.messages[i].text = "Received"

GeneratedWallet == UserRow(AddressOf(KeyG), encrypt_private_key(KeyG).ret, None)

\* C25: create_new_wallet leaves the stored wallet (address, ciphertext,
\* salt) as it is; confirm_new_wallet overwrites the record with a freshly
\* generated key under master-key encryption, without a salt, whatever the
\* wallet stored before.
C25_NewWalletOnlyOnConfirm ==
    [][\A u \in Users :
          /\ (last_update'.user = u /\ last_update'.handler = "button_create_new_wallet")
                => users'[u] = users[u]
          /\ (last_update'.user = u /\ last_update'.handler = "button_confirm_new_wallet")
                => users'[u] = GeneratedWallet]_vars

\* create_new_wallet was pressed over a passphrase-protected wallet, which
\* is still there
C25_Witness ==
    \E u \in Users :
        /\ last_update.user = u
        /\ last_update.handler = "button_create_new_wallet"
        /\ users[u] # NoRow
        /\ Truthy(users[u].passphrase_salt)

(***************************************************************************)
(* Claims about the send flow (checked under SpecSend)                     *)
(***************************************************************************)
\* a 42-character string starting with 0x
WellFormedRecipient(address) ==
    /\ Len(address) = 42
    /\ address[1] = "0"
    /\ address[2] = "x"

\* the text without the blanks around it
Trimmed(text, address) ==
    \E i \in 0..Len(text), j \in 0..Len(text) :
        /\ i + j + Len(address) = Len(text)
        /\ \A k \in 1..i : text[k] = " "
        /\ \A k \in 1..j : text[Len(text) + 1 - k] = " "
        /\ \A k \in 1..Len(address) : text[i + k] = address[k]
        /\ address # <<>> => address[1] # " " /\ address[Len(address)] # " "

\* the amounts among the texts with 0 < amount
PositiveAmount(text) == text \in {"1", "2", "3"}

\* C26: in the send flow a transfer is submitted only by the amount step,
\* after a recipient of 42 characters starting with 0x was accepted and for
\* an amount with 0 < amount <= cached balance; a recipient that is not of
\* that form keeps the conversation in the enter-recipient state, an invalid
\* or over-balance amount keeps it in the enter-amount state, and neither
\* submits a transaction.
C26_SendOnlyAfterAccepted ==
    [][\A u \in Users :
          /\ chain_txs' # chain_txs /\ send_call'.user = u =>
                /\ conv[u] = "AwaitingSendAmount"
                /\ last_update'.handler = "handle_send_amount_input"
                /\ send_call'.outcome = "submitted"
                /\ user_data[u].send_token # NoRow
                /\ WellFormedRecipient(user_data[u].send_token.recipient)
                /\ send_call'.recipient = user_data[u].send_token.recipient
                /\ PositiveAmount(send_call'.text)
                /\ send_call'.amount <= user_data[u].send_token.balance
                /\ Len(chain_txs') = Len(chain_txs) + 1
                /\ chain_txs'[Len(chain_txs')].amount = send_call'.amount
          /\ (/\ send_call'.user = u /\ conv[u] = "AwaitingSendAddress"
              /\ last_update'.handler = "handle_send_address_input"
              /\ \A address \in RecipientTexts :
                    Trimmed(send_call'.text, address) => ~WellFormedRecipient(address)) =>
                /\ conv'[u] = "AwaitingSendAddress"
                /\ chain_txs' = chain_txs
          /\ (/\ send_call'.user = u /\ conv[u] = "AwaitingSendAmount"
              /\ last_update'.handler = "handle_send_amount_input"
              /\ user_data[u].send_token # NoRow
              /\ \/ ~PositiveAmount(send_call'.text)
                 \/ DecimalOf(send_call'.text).value > user_data[u].send_token.balance) =>
                /\ conv'[u] = "AwaitingSendAmount"
                /\ chain_txs' = chain_txs]_vars

\* a transfer was submitted to a recipient typed with blanks around it
C26_Witness ==
    /\ send_call.handler = "handle_send_amount_input"
    /\ send_call.outcome = "submitted"
    /\ send_call.recipient = UnlistedAddress
    /\ send_call.amount = send_call.balance
    /\ Len(chain_txs) = 1

(***************************************************************************)
(* Claims about the balance waterfall (checked under SpecWaterfall)        *)
(***************************************************************************)
TierOrder == <<"alchemy", "blockvision", "native">>

\* the tiers consulted so far are the first ones of the order, and every one
\* before the last had failed
ConsultedInOrder ==
    /\ Len(waterfall.consulted) <= Len(TierOrder)
    /\ \A i \in 1..Len(waterfall.consulted) :
          /\ waterfall.consulted[i].tier = TierOrder[i]
          /\ i < Len(waterfall.consulted) => waterfall.consulted[i].outcome # "ok"

LastConsulted == waterfall.consulted[Len(waterfall.consulted)]

\* C22: get_wallet_all_tokens never raises and consults its tiers strictly
\* in order: the legacy helper runs only after the primary helper failed,
\* the native read only after both failed; a tier that succeeds ends the
\* call with its result, and every call that has begun returns.
C22_TiersInOrder ==
    /\ [](/\ waterfall.pc \in {"idle", "blockvision", "native", "returned"}
          /\ ConsultedInOrder
          /\ waterfall.pc = "returned" =>
                \/ LastConsulted.outcome = "ok"
                \/ LastConsulted.tier = "native" /\ waterfall.balances = NoTokens
          /\ waterfall.pc \in {"blockvision", "native"} =>
                /\ LastConsulted.outcome # "ok"
                /\ waterfall.pc = TierOrder[Len(waterfall.consulted) + 1])
    /\ (waterfall.pc \in {"blockvision", "native"}) ~> (waterfall.pc = "returned")

\* the primary helper succeeded with an empty result, which was returned
C22_WitnessEmpty ==
    /\ waterfall.pc = "returned"
    /\ Len(waterfall.consulted) = 1
    /\ waterfall.balances = NoTokens

(***************************************************************************)
(* Claims about the verified-token predicate (checked under SpecVerified)  *)
(***************************************************************************)
\* two characters that differ in case at most
SameLetter(c, d) ==
    \/ c = d
    \/ \E i \in 1..Len(UpperLetters) :
          {c, d} = {UpperLetters[i], LowerLetters[i]}

\* the address is a key of the allow-list, whatever the case of its letters
AllowListed(token_address) ==
    \E key \in VERIFIED_TOKENS :
        /\ Len(key) = Len(token_address)
        /\ \A i \in 1..Len(key) : SameLetter(key[i], token_address[i])

\* the symbol ends with ".a"
Atlantis(symbol) ==
    /\ Len(symbol) >= 2
    /\ symbol[Len(symbol) - 1] = "."
    /\ symbol[Len(symbol)] = "a"

RANDOM == <<"R", "A", "N", "D", "O", "M">>

\* C23: for every (address, symbol) the predicate is true iff the lower-cased
\* address is allow-listed, or the symbol is a high-value one, or one of
\* USDT, USDC, DAI, BUSD, FRAX, R2USD, or ends with ".a"; an allow-listed
\* address is verified under every symbol, and RANDOM at an unlisted address
\* is not verified.
C23_VerifiedIff ==
    verified_call.called =>
        LET token_address == verified_call.token_address
            symbol == verified_call.symbol
        IN /\ verified_call.result =
                  (\/ AllowListed(token_address)
                   \/ symbol \in HIGH_VALUE_TOKENS
                   \/ symbol \in stablecoins
                   \/ Atlantis(symbol))
           /\ AllowListed(token_address) => verified_call.result = TRUE
           /\ symbol = RANDOM /\ ~AllowListed(token_address) =>
                  verified_call.result = FALSE

\* an allow-listed address given in checksum case was verified under the
\* symbol RANDOM
C23_Witness ==
    /\ verified_call.called
    /\ verified_call.token_address = WMON_CHECKSUM
    /\ verified_call.symbol = RANDOM
    /\ verified_call.result = TRUE

(***************************************************************************)
(* Claims about the master-key service (checked under SpecCipher)          *)
(***************************************************************************)
\* a non-empty plaintext has been encrypted and the ciphertext decrypted
RoundTripDone ==
    /\ cipher_call.stage = "decrypted"
    /\ cipher_call.plaintext # EmptyKey

\* C24: for the master-key service decrypt(encrypt(p)) = p for every
\* non-empty plaintext p, including plaintexts without a 0x prefix.
C24_RoundTrip ==
    RoundTripDone =>
        /\ cipher_call.raised = "none"
        /\ cipher_call.decrypted = cipher_call.plaintext

\* C24, amended: decrypt(encrypt(p)) is p when p starts with 0x, and 0x
\* followed by p when it does not.
C24_RoundTripNormalised ==
    RoundTripDone =>
        /\ cipher_call.raised = "none"
        /\ cipher_call.plaintext[1] = "0x" =>
              cipher_call.decrypted = cipher_call.plaintext
        /\ cipher_call.plaintext[1] # "0x" =>
              /\ Len(cipher_call.decrypted) = Len(cipher_call.plaintext) + 1
              /\ cipher_call.decrypted[1] = "0x"
              /\ \A i \in 1..Len(cipher_call.plaintext) :
                    cipher_call.decrypted[i + 1] = cipher_call.plaintext[i]

\* a plaintext without the prefix went through the round trip
C24_Witness ==
    /\ RoundTripDone
    /\ cipher_call.plaintext = KeyARaw
    /\ cipher_call.decrypted = KeyA

(***************************************************************************)
(* Claims about the monitor's loop (checked under SpecCycle)               *)
(***************************************************************************)
\* the cycle is over and its users query had given the rows
CycleDone == monitor_loop.pc = "sleep" /\ "fetch" \notin monitor_loop.errors

\* C21: a failure while checking one user does not keep the remaining users
\* of the cycle from being checked (at the end of a cycle every user the
\* query gave has been checked, in order), and no error ends the loop: after
\* every cycle another cycle eventually starts.
C21_CycleGoesOn ==
    /\ [](CycleDone => monitor_loop.checked = monitor_loop.users)
    /\ (monitor_loop.pc = "sleep") ~> (monitor_loop.pc = "fetch")
    /\ (monitor_loop.pc = "fetch") ~> (monitor_loop.pc = "sleep")

\* a cycle of two users is over, the check of the first one had failed and
\* the second one was checked all the same
C21_Witness ==
    /\ CycleDone
    /\ Len(monitor_loop.users) = 2
    /\ monitor_loop.users[1] \in monitor_loop.errors
    /\ monitor_loop.checked = monitor_loop.users
    /\ monitor_call.user = monitor_loop.users[2]

(***************************************************************************)
(* Edits that change nothing                                               *)
(***************************************************************************)
\* the content a menu handler renders
Rendered(handler, settings) ==
    CASE handler = "button_menu" -> MainMenuContent
      [] handler = "button_set_slippage" -> SlippageMenuContent
      [] handler = "button_set_gas" -> GasMenuContent
      [] OTHER -> SettingsContent(settings)

\* the step is a menu handler whose new content is the content shown
IdenticalRender ==
    \E u \in Users :
        /\ last_update'.user = u
        /\ last_update'.handler \in MenuHandlers
        /\ CurrentContent(u) = Rendered(last_update'.handler, user_settings'[u])

\* C27: whenever a handler re-renders a message whose new content is the
\* content shown (selecting the slippage or gas tier that is stored, say),
\* the edit is a no-op and the handler completes normally, without an error.
C27_IdenticalEditSuppressed ==
    [][IdenticalRender => last_update'.raised = "none" /\ shown' = shown]_vars

(***************************************************************************)
(* Blocking operations                                                     *)
(***************************************************************************)
\* C28: while one task is inside a blocking operation (the 3-second wait
\* after an approval, a helper subprocess, a chain RPC call, the 60-second
\* delay before the shown key is deleted) the other scheduled tasks, the
\* receipt of further updates and the notification monitor, can take steps.
C28_OthersKeepStepping == event_loop.op \in BlockingOps => Runnable

(***************************************************************************)
(* Submissions of one wallet                                               *)
(***************************************************************************)
Swap(tx) == tx.kind \in {"swapExactETHForTokens", "swapExactTokensForETH"}

\* C29: trading operations on one wallet do not exclude each other: a buy or
\* sell that is submitted while an earlier transaction of the wallet is not
\* yet mined has read the nonce that transaction carries, so two submitted
\* transactions of the wallet carry the same nonce.
C29_PendingNotCounted ==
    \A i \in DOMAIN account.pending :
        LET tx == account.pending[i]
        IN Swap(tx) /\ tx.seen # {} => tx.nonce \in tx.seen

\* two swaps of the wallet are submitted, neither is mined, both carry the
\* same nonce
C29_Witness ==
    \E i, j \in DOMAIN account.pending :
        /\ i < j
        /\ Swap(account.pending[i]) /\ Swap(account.pending[j])
        /\ account.pending[i].nonce = account.pending[j].nonce
        /\ account.pending[j].seen # {}

(***************************************************************************)
(* Outliers of the quantity basis                                          *)
(***************************************************************************)
\* the balances of the displayed holdings
DisplayedBalances == tokens_to_display(portfolio_call.balances)

\* the holdings whose balance exceeds ten times the fourth-largest balance
TenTimesFourth(balances) ==
    {i \in DOMAIN balances : balances[i] > 10 * balances[4]}

RenderedByQuantity ==
    /\ portfolio_call.called
    /\ portfolio_call.result.allocation_mode = "quantity"
    /\ Len(DisplayedBalances) >= 4

\* C30: in quantity-basis rendering with at least 4 displayed holdings every
\* holding whose balance exceeds 10 times the 4th-largest balance is left out
\* of the percentage base and rendered as an outlier with 0 %: for the
\* balances 1000, 900, 800, 10, 5 the first three are left out and the
\* percentages of 10 and 5 are computed over 15.
C30_OutliersExcluded ==
    RenderedByQuantity =>
        LET balances == DisplayedBalances
            result == portfolio_call.result
            out == TenTimesFourth(balances)
        IN /\ result.raised = "none"
           /\ result.outlier_tokens = out
           /\ result.base = SumValues(balances, DOMAIN balances \ out)
           /\ \A i \in DOMAIN balances :
                 result.pct[i] = IF i \in out THEN Float(0)
                                 ELSE [type |-> "float", num |-> balances[i], den |-> result.base]

\* the smaller of two numbers
Min(a, b) == IF a <= b THEN a ELSE b

\* a rendering on the quantity basis
ByQuantity ==
    /\ portfolio_call.called
    /\ portfolio_call.result.allocation_mode = "quantity"

\* C31: on the quantity basis the exclusion of outliers is kept only if at
\* least 3 displayed holdings remain in the percentage base; if fewer than 3
\* would remain nobody is excluded or flagged and all displayed holdings form
\* the base, so the base never has fewer than min(3, displayed) holdings.
C31_BaseKeepsThree ==
    ByQuantity =>
        LET all == DOMAIN DisplayedBalances
            result == portfolio_call.result
            over == IF Len(DisplayedBalances) >= 4
                    THEN TenTimesFourth(DisplayedBalances) ELSE {}
        IN /\ result.tokens_for_calc = all \ result.outlier_tokens
           /\ result.outlier_tokens # {} => Cardinality(result.tokens_for_calc) >= 3
           /\ Cardinality(all \ over) < 3 => result.outlier_tokens = {} /\ result.tokens_for_calc = all
           /\ Cardinality(all \ over) >= 3 => result.outlier_tokens = over
           /\ Cardinality(result.tokens_for_calc) >= Min(3, Cardinality(all))

\* five holdings of which three exceed ten times the fourth: two would
\* remain, and nobody is excluded
C31_Witness ==
    /\ ByQuantity
    /\ Len(portfolio_call.balances) = 5
    /\ Cardinality(TenTimesFourth(portfolio_call.balances)) = 3
    /\ portfolio_call.result.outlier_tokens = {}

(***************************************************************************)
(* The basis of the allocation                                             *)
(***************************************************************************)
\* the displayed holdings with a resolved value other than zero
Valued == {i \in DOMAIN DisplayedBalances : i \in portfolio_call.priced}

\* the sum of their values
ValuedTotal == SumValues(DisplayedBalances, Valued)

\* C32: render_portfolio uses the value basis iff at least 3 of the displayed
\* holdings (after the truncation) have a resolved non-zero USD value and the
\* sum of those values is above 0, and the quantity basis otherwise; on the
\* value basis a displayed holding without a value gets 0 % and the
\* percentages of the valued holdings sum to 100 %.
C32_ValueBasisIff ==
    portfolio_call.called /\ portfolio_call.balances # <<>> =>
        LET result == portfolio_call.result
        IN /\ result.allocation_mode \in {"value", "quantity"}
           /\ result.allocation_mode = "value" <=> (Cardinality(Valued) >= 3 /\ ValuedTotal > 0)
           /\ result.allocation_mode = "value" =>
                 /\ result.raised = "none"
                 /\ \A i \in DOMAIN DisplayedBalances \ Valued : result.pct[i] = Float(0)
                 /\ \A i \in Valued : /\ result.pct[i].type = "float"
                                       /\ result.pct[i].num = DisplayedBalances[i]
                                       /\ result.pct[i].den = ValuedTotal
                 /\ SumValues([i \in Valued |-> result.pct[i].num], Valued) = ValuedTotal

\* a rendering by value that displays a holding without a value
C32_Witness ==
    /\ portfolio_call.called
    /\ portfolio_call.result.allocation_mode = "value"
    /\ DOMAIN DisplayedBalances \ Valued # {}
    /\ portfolio_call.result.raised = "none"

(***************************************************************************)
(* The holdings of the overview                                            *)
(***************************************************************************)
OverviewDone == portfolio_call.called /\ portfolio_call.fn = "get_wallet_overview"

\* the holdings of the input that are not native and have a balance above 0
Holdable ==
    LET given == {portfolio_call.all_tokens[i] : i \in DOMAIN portfolio_call.all_tokens}
    IN {d.symbol : d \in {x \in given : x.symbol \notin {"MON", "MONAD"} /\ x.balance > 0}}

\* C33: the holdings list of get_wallet_overview is ordered by raw balance,
\* non-increasing, whatever prices were resolved (the order by value of the
\* step before is not kept), holds only the non-native holdings with a
\* balance above 0, and total_positions is 1 plus its length.
C33_OrderedByBalance ==
    OverviewDone =>
        LET tokens == portfolio_call.result.tokens
        IN /\ \A i \in 1..(Len(tokens) - 1) : tokens[i].balance >= tokens[i + 1].balance
           /\ {tokens[i].symbol : i \in DOMAIN tokens} = Holdable
           /\ Len(tokens) = Cardinality(Holdable)
           /\ \A i \in DOMAIN tokens : tokens[i].balance > 0
           /\ portfolio_call.result.total_positions = 1 + Len(tokens)

\* the order by value put a holding of smaller balance first, and the
\* returned list has it behind
C33_Witness ==
    /\ OverviewDone
    /\ Len(portfolio_call.result.tokens) >= 2
    /\ portfolio_call.result.by_value[1].balance < portfolio_call.result.by_value[2].balance
    /\ portfolio_call.result.tokens # portfolio_call.result.by_value

(***************************************************************************)
\* the plain token as the call returned it
PlainToken ==
    LET tokens == portfolio_call.result.tokens
    IN tokens[CHOOSE i \in DOMAIN tokens : tokens[i].symbol = "AAA"]

\* the helper was asked for the plain token and quoted a price above 1000
HelperQuotedHigh ==
    /\ OverviewDone /\ "AAA" \in Holdable
    /\ get_cached_price(portfolio_call.cache_before, "0xToken", portfolio_call.at) = 0
    /\ portfolio_call.env.helper > 1000

\* the on-chain quote is above 0 and below 1000
OnchainUsable == portfolio_call.env.onchain > 0 /\ portfolio_call.env.onchain < 1000

\* C34: a helper quote above 1000 for a holding that is no MON derivative is
\* neither assigned to the holding nor written to the price cache; the
\* on-chain quote takes its place only when it is above 0 and below 1000,
\* otherwise the holding stays without price and value and its cache entry
\* is the one it was.
C34_SuspiciousPriceDropped ==
    HelperQuotedHigh =>
        LET onchain == portfolio_call.env.onchain
            entry == portfolio_call.result.cache["0xToken"]
        IN /\ PlainToken.price_usd # portfolio_call.env.helper
           /\ entry # NoRow => entry.price # portfolio_call.env.helper
           /\ IF OnchainUsable
              THEN /\ PlainToken.price_usd = onchain
                   /\ PlainToken.value_usd = PlainToken.balance * onchain
                   /\ entry = [price |-> onchain, expiry |-> portfolio_call.at + CACHE_DURATION_SECONDS]
              ELSE /\ PlainToken.price_usd = 0 /\ PlainToken.value_usd = 0
                   /\ entry = portfolio_call.cache_before["0xToken"]

\* the helper quoted above 1000 and the on-chain quote was 1000: the
\* holding has no price, and the expired entry of the first call is kept
C34_Witness ==
    /\ HelperQuotedHigh /\ ~OnchainUsable /\ portfolio_call.env.onchain = 1000
    /\ portfolio_call.again /\ portfolio_call.cache_before["0xToken"] # NoRow
    /\ PlainToken.price_usd = 0

\* a lookup of the price cache is the last call
LookedUp == portfolio_call.called /\ portfolio_call.fn = "get_cached_price"

\* what a lookup of key k at moment t has to return: the price of the last
\* cache_price of k when t is before its moment plus 300 seconds, else 0
LivePrice(k, t) ==
    LET put == PutsSoFar[k]
    IN IF put # NoRow /\ t < put.at + 300 THEN put.price ELSE 0

\* C35: get_cached_price(k) at moment t returns the price of the most recent
\* cache_price(k, p) exactly when that happened at a moment t0 with
\* t < t0 + 300 seconds, and absent (0) otherwise; the lookup leaves the
\* cache as it is, and an entry, expired or not, stays in the map as the
\* last cache_price of its key wrote it.
C35_LiveForFiveMinutes ==
    /\ LookedUp =>
          /\ portfolio_call.result = LivePrice(portfolio_call.key, portfolio_call.at)
          /\ price_cache = portfolio_call.cache_before
    /\ \A k \in CacheKeys :
          /\ price_cache[k] = NoRow <=> PutsSoFar[k] = NoRow
          /\ price_cache[k] # NoRow => price_cache[k].price = PutsSoFar[k].price

\* a lookup exactly 300 seconds after the price was cached: absent, and the
\* entry is still in the map
C35_Witness ==
    /\ LookedUp /\ portfolio_call.result = 0
    /\ PutsSoFar[portfolio_call.key] # NoRow
    /\ portfolio_call.at = PutsSoFar[portfolio_call.key].at + 300
    /\ price_cache[portfolio_call.key] # NoRow

\* ascii_bar has returned
BarDrawn == portfolio_call.called /\ portfolio_call.fn = "ascii_bar"

\* the share of the call was num / den and the width 16
BarOf(num, den) ==
    BarDrawn /\ portfolio_call.num = num /\ portfolio_call.den = den /\ portfolio_call.width = 16

\* the filled cells of the bar
FilledCells == Cardinality({i \in DOMAIN portfolio_call.result : portfolio_call.result[i] = FilledCell})

CheckedAgain ==
    /\ Checked /\ "prev" \in DOMAIN monitor_call
    /\ monitor_call.prev.user = monitor_call.user

\* the check before queued a notification, and this check saw the holdings
\* that one saw
SameHoldingsAfterNotice ==
    /\ CheckedAgain
    /\ monitor_call.prev.queued > 0
    /\ monitor_call.prev.current_tokens = Current

\* the check sent nothing and queued nothing
Silent == monitor_call.new_tokens = <<>> /\ monitor_call.messages = <<>>

C40_NewWalletStartsSilent ==
    (CheckedAgain /\ monitor_call.prev.wallet # monitor_call.wallet) =>
        /\ Silent
        /\ monitor_call.outcome # "error" => token_snapshots[monitor_call.user] = Current

\* the handlers that end the import: the storage in Quick Mode, the
\* confirmed storage in Secure Mode, /cancel, and the branches that answer
\* "Session expired"
ImportEnds ==
    {"button_import_mode_quick", "button_import_mode_quick:expired",
     "handle_confirm_passphrase", "handle_confirm_passphrase:expired", "cancel"}

\* C39: whenever the import conversation has returned to Idle, by the
\* storage in Quick Mode, the confirmed storage in Secure Mode, /cancel in
\* any state of the import or a session-expired branch, the session data
\* holds no pending signing key and no pending passphrase.
C39_IdleHoldsNoSecret ==
    \A u \in Users :
        (last_update.user = u /\ last_update.handler \in ImportEnds /\ conv[u] = END) =>
            /\ user_data[u].pending_private_key = EmptyKey
            /\ ~Truthy(user_data[u].pending_passphrase)

\* C38: once a trade attempt made for a button or a typed amount has
\* finished, with or without a transaction, for a wallet of Quick Mode or of
\* Secure Mode, the user_context entry is removed, so that the same
\* confirm_sell_<percentage> or buy_<amount> callback finds no entry, answers
\* "session expired" and submits nothing.
C38_ContextRemovedAfterTrade ==
    \A u \in Users :
        (last_update.user = u /\ last_update.trade \in {"ok", "failed"}) =>
            user_context[u] = NoRow

(* Swaps against quotes of any size (specification SpecQuote)              *)
(***************************************************************************)
\* SLIPPAGE_OPTIONS, in tenths of a percent
SlippagePresets == {SplitIndex1(data) : data \in SlippageData}

QuotedEnv(quote) ==
    [info_ok |-> TRUE, decimals |-> 0, allowance_read_ok |-> TRUE,
     approve_send_ok |-> TRUE, approve_mined |-> TRUE, quote_ok |-> TRUE,
     swap_send_ok |-> TRUE, expected_output |-> quote]

QuoteCall(fn, quote, slippage, r) ==
    [fn |-> fn, expected_output |-> quote, slippage |-> slippage, ok |-> r.ok,
     min_output |-> r.min_output]

QuoteBuyToken ==
    \E quote \in QuoteAmounts, slippage \in SlippagePresets :
        LET r == buy_token(allowance, chain_txs, 1, KeyA, slippage, "normal",
                           QuotedEnv(quote))
        IN /\ Len(chain_txs) + 1 <= MaxTxs
           /\ chain_txs' = chain_txs \o r.txs
           /\ allowance' = r.allowance
           /\ quote_call' = QuoteCall("buy_token", quote, slippage, r)
           /\ UNCHANGED <<trade_call, dbVars, botVars, monitorVars>>

QuoteSellToken ==
    \E quote \in QuoteAmounts, slippage \in SlippagePresets :
        LET r == sell_token(allowance, chain_txs, 1, KeyA, slippage, "normal",
                            QuotedEnv(quote))
        IN /\ Len(chain_txs) + 2 <= MaxTxs
           /\ chain_txs' = chain_txs \o r.txs
           /\ allowance' = r.allowance
           /\ quote_call' = QuoteCall("sell_token", quote, slippage, r)
           /\ UNCHANGED <<trade_call, dbVars, botVars, monitorVars>>

NextQuote == QuoteBuyToken \/ QuoteSellToken

SpecQuote == InitFresh /\ [][NextQuote]_vars

(***************************************************************************)
(* Claims about the quoted swaps (checked under SpecQuote)                 *)
(***************************************************************************)
\* floor(expected_output * (1 - slippage / 100)) in exact arithmetic
ExactFloor(expected_output, slippage) ==
    LDivSmall(LMulSmall(expected_output, 1000 - slippage), 1000).q

\* C11: for every quoted expected_output and every slippage preset buy_token
\* and sell_token compute min_output = floor(expected_output * (1 -
\* slippage / 100)) exactly, and 0 <= min_output <= expected_output.
C11_MinOutputIsFloor ==
    (quote_call.fn # "none" /\ quote_call.ok) =>
        /\ quote_call.min_output =
              ExactFloor(quote_call.expected_output, quote_call.slippage)
        /\ LLeq(quote_call.min_output, quote_call.expected_output)

====
